---------------------------- MODULE Spec2Model ----------------------------
(***************************************************************************)
(* Graph-convolution layers of "GCMC adaptation/layers.py".                *)
(*                                                                         *)
(* Tensors are integer matrices (sequences of rows).  Real arithmetic is   *)
(* carried in fixed point: keep probabilities and uniform draws are        *)
(* counted in quarters, a sigmoid returns a number of quarters, and a      *)
(* tensor that has passed through a sigmoid is stored multiplied by its    *)
(* denominator (4 per gated stage).  Sparse tensors are coordinate lists   *)
(* (indices, values, dense_shape) with 1-based indices.                    *)
(***************************************************************************)
EXTENDS Integers, Sequences, FiniteSets, TLC

(***************************************************************************)
(* Bounds of the model.                                                    *)
(***************************************************************************)
\* largest num_support (relation count R) a layer is constructed with
MaxSupport == 3
\* largest output_dim a layer is constructed with
MaxOutputDim == 2
\* largest number of nodes in one partition (|A|, |B|)
MaxNodes == 2
\* largest seed of the opaque initializer / feature generator
MaxSeed == 1

\* largest num_classes and num_weights a BilinearMixture is constructed with
MaxClasses == 2
MaxWeights == 2
\* largest number of requested pairs (length of u_indices / v_indices)
MaxPairs == 2
\* largest number of forward evaluations of one gated-residual layer
MaxCalls == 2
\* tf.nn.softmax: exponents further than this below the row maximum are taken
\* at this distance
MaxExponent == 3

\* input_dim of every constructed layer, and edges per relation (E)
InputDims == {2}
EdgeCounts == {2}

(***************************************************************************)
(* Dense tensor algebra (tf.matmul, tf.add, tf.concat, ...).               *)
(***************************************************************************)
Rows(M) == Len(M)

Cols(M) == IF Len(M) = 0 THEN 0 ELSE Len(M[1])

\* the value of e, computed once: a function constructor is otherwise
\* evaluated again at every application
Eval(e) == IF e = e THEN e ELSE e

RECURSIVE SumFn(_, _)
SumFn(f, n) == IF n = 0 THEN 0 ELSE f[n] + SumFn(f, n - 1)

Zeros(rows, cols) ==
    Eval(
        [r \in 1..rows |-> [c \in 1..cols |-> 0]])

\* tf.matmul(x, y)
matmul(x, y) ==
    Eval(
        [r \in 1..Rows(x) |-> [c \in 1..Cols(y) |->
            SumFn([j \in 1..Cols(x) |-> x[r][j] * y[j][c]], Cols(x))]])

Transpose(M) ==
    Eval(
        [c \in 1..Cols(M) |-> [r \in 1..Rows(M) |-> M[r][c]]])

\* tf.add / tf.multiply on tensors of one shape
add(x, y) ==
    Eval(
        [r \in 1..Rows(x) |-> [c \in 1..Cols(x) |-> x[r][c] + y[r][c]]])

multiply(x, y) ==
    Eval(
        [r \in 1..Rows(x) |-> [c \in 1..Cols(x) |-> x[r][c] * y[r][c]]])

Scale(k, x) ==
    Eval(
        [r \in 1..Rows(x) |-> [c \in 1..Cols(x) |-> k * x[r][c]]])

\* tf.add / tf.multiply with numpy broadcasting over the row axis
BroadcastOk(x, y) == Rows(x) = Rows(y) \/ Rows(x) = 1 \/ Rows(y) = 1

BRow(x, r) == IF Rows(x) = 1 THEN x[1] ELSE x[r]

BRows(x, y) ==
    IF Rows(x) = 0 \/ Rows(y) = 0 THEN 0 ELSE IF Rows(x) >= Rows(y) THEN Rows(x) ELSE Rows(y)

broadcast_add(x, y) ==
    Eval(
        [r \in 1..BRows(x, y) |-> [c \in 1..Cols(x) |-> BRow(x, r)[c] + BRow(y, r)[c]]])

broadcast_multiply(x, y) ==
    Eval(
        [r \in 1..BRows(x, y) |-> [c \in 1..Cols(x) |-> BRow(x, r)[c] * BRow(y, r)[c]]])

\* tf.nn.bias_add(x, b): b is a vector, stored as a 1 x n matrix
bias_add(x, b) ==
    Eval(
        [r \in 1..Rows(x) |-> [c \in 1..Cols(x) |-> x[r][c] + b[1][c]]])

\* tf.concat(axis=1, values=list): every element has the rows of the first
RECURSIVE ConcatRow(_, _, _)
ConcatRow(list, r, n) ==
    IF n = 0 THEN << >> ELSE ConcatRow(list, r, n - 1) \o list[n][r]

concat1(list) ==
    Eval(
        IF Len(list) = 0 THEN << >>
        ELSE [r \in 1..Rows(list[1]) |-> ConcatRow(list, r, Len(list))])

\* tf.concat([a, b], axis=0)
concat0(a, b) == a \o b

\* tf.add_n(list)
RECURSIVE add_n_to(_, _)
add_n_to(list, n) == IF n = 1 THEN list[1] ELSE add(add_n_to(list, n - 1), list[n])

add_n(list) == add_n_to(list, Len(list))

\* column range lo..hi of a matrix
ColRange(M, lo, hi) ==
    Eval(
        [r \in 1..Rows(M) |-> SubSeq(M[r], lo, hi)])

\* tf.split(value, axis=1, num_or_size_splits=n): n equal column blocks
split(value, n) ==
    Eval(
        [j \in 1..n |-> ColRange(value, (j - 1) * (Cols(value) \div n) + 1,
                                        j * (Cols(value) \div n))])

\* output[:n] and output[n:]
RowsTo(M, n) == SubSeq(M, 1, n)

RowsFrom(M, n) == SubSeq(M, n + 1, Len(M))

\* tf.nn.relu
relu(x) ==
    Eval(
        [r \in 1..Rows(x) |-> [c \in 1..Cols(x) |-> IF x[r][c] > 0 THEN x[r][c] ELSE 0]])

\* self.act(x): the configured activation
Act(act, x) == IF act = "relu" THEN relu(x) ELSE x

\* tf.nn.sigmoid of the value a / den, rounded to quarters (0..4)
SigmoidQ(a, den) ==
    IF 2 * a < -3 * den THEN 0
    ELSE IF 2 * a < -den THEN 1
    ELSE IF 2 * a <= den THEN 2
    ELSE IF 2 * a <= 3 * den THEN 3
    ELSE 4

sigmoid(x, den) ==
    Eval(
        [r \in 1..Rows(x) |-> [c \in 1..Cols(x) |-> SigmoidQ(x[r][c], den)]])

\* tf.gather reading the row after the one asked for
gather_next_row(params, indices) ==
    Eval(
        [e \in 1..Len(indices) |-> params[(indices[e] % Rows(params)) + 1]])

\* tf.gather(params, indices): row e of the result is row indices[e] of params
gather(params, indices) ==
    Eval(
        [e \in 1..Len(indices) |-> params[indices[e]]])

\* tf.reduce_sum(x, axis=1): one number per row
reduce_sum(x) ==
    Eval(
        [r \in 1..Rows(x) |-> SumFn(x[r], Cols(x))])

\* tf.stack(list, axis=1) of n vectors of length len: a len x n matrix
stack(list, len) ==
    Eval(
        [r \in 1..len |-> [k \in 1..Len(list) |-> list[k][r]]])

\* a number as a fraction << numerator, denominator >>
Frac(n) == << n, 1 >>

Fractions(x) ==
    Eval(
        [r \in 1..Rows(x) |-> [c \in 1..Cols(x) |-> Frac(x[r][c])]])

RECURSIVE Pow2(_)
Pow2(n) == IF n = 0 THEN 1 ELSE 2 * Pow2(n - 1)

RECURSIVE MaxOf(_, _)
MaxOf(f, n) == IF n = 1 THEN f[1] ELSE IF f[n] > MaxOf(f, n - 1) THEN f[n] ELSE MaxOf(f, n - 1)

\* exp(a - m) for a <= m, up to a common factor: positive, increasing in a; base 2
\* stands for base e
ExpShifted(a, m) == Pow2(MaxExponent - (IF m - a > MaxExponent THEN MaxExponent ELSE m - a))

\* tf.nn.softmax(x): exp(x - max) / reduce_sum(exp(x - max)) along each row, every
\* entry a fraction over its row's sum
softmax(x) ==
    Eval(
        [r \in 1..Rows(x) |->
            LET m == MaxOf(x[r], Cols(x))
                e == [c \in 1..Cols(x) |-> ExpShifted(x[r][c], m)]
            IN  [c \in 1..Cols(x) |-> << e[c], SumFn(e, Cols(x)) >>]])

(***************************************************************************)
(* Sparse tensors.                                                         *)
(***************************************************************************)
SparseTensor(indices, values, dense_shape) ==
    [indices |-> indices, values |-> values, dense_shape |-> dense_shape]

Nnz(sp) == Len(sp.values)

AllIdx(rows, cols) ==
    [k \in 1..(rows * cols) |-> << ((k - 1) \div cols) + 1, ((k - 1) % cols) + 1 >>]

\* the sparse tensor holding the nonzero entries of M, in row-major order
FromDense(M) ==
    Eval(
        LET idx == SelectSeq(AllIdx(Rows(M), Cols(M)), LAMBDA p : M[p[1]][p[2]] # 0)
        IN  SparseTensor(idx, [k \in 1..Len(idx) |-> M[idx[k][1]][idx[k][2]]],
                         << Rows(M), Cols(M) >>))

\* tf.sparse_to_dense(indices, dense_shape, values)
sparse_to_dense(sp) ==
    Eval(
        [r \in 1..sp.dense_shape[1] |-> [c \in 1..sp.dense_shape[2] |->
            SumFn([k \in 1..Nnz(sp) |->
                     IF sp.indices[k] = << r, c >> THEN sp.values[k] ELSE 0], Nnz(sp))]])

\* tf.sparse_tensor_dense_matmul(sp, y)
sparse_tensor_dense_matmul(sp, y) ==
    Eval(
        [r \in 1..sp.dense_shape[1] |-> [c \in 1..Cols(y) |->
            SumFn([k \in 1..Nnz(sp) |->
                     IF sp.indices[k][1] = r THEN sp.values[k] * y[sp.indices[k][2]][c]
                     ELSE 0], Nnz(sp))]])

SpMatmulOk(sp, y) == sp.dense_shape[2] = Rows(y)

\* tf.sparse_transpose(sp): entries re-sorted in row-major order of the result
sparse_transpose(sp) == FromDense(Transpose(sparse_to_dense(sp)))

\* tf.sparse_retain(sp, to_retain)
sparse_retain(sp, to_retain) ==
    Eval(
        LET kept == SelectSeq([k \in 1..Nnz(sp) |-> k], LAMBDA k : to_retain[k])
        IN  SparseTensor([j \in 1..Len(kept) |-> sp.indices[kept[j]]],
                         [j \in 1..Len(kept) |-> sp.values[kept[j]]],
                         sp.dense_shape))

\* sparse tensor * scalar
SparseScale(sp, k) ==
    Eval(
        SparseTensor(sp.indices, [j \in 1..Nnz(sp) |-> sp.values[j] * k], sp.dense_shape))

\* tf.sparse_split(axis=1, num_split=n, sp_input=sp): piece j (1-based) gets
\* cols \div n columns, and one more when j <= cols % n
SplitSize(cols, n, j) == (cols \div n) + (IF j <= cols % n THEN 1 ELSE 0)

SplitStart(cols, n, j) ==
    (j - 1) * (cols \div n) + (IF j - 1 <= cols % n THEN j - 1 ELSE cols % n)

sparse_split(n, sp) ==
    Eval(
        [j \in 1..n |->
            LET lo == SplitStart(sp.dense_shape[2], n, j)
                sz == SplitSize(sp.dense_shape[2], n, j)
                ks == SelectSeq([k \in 1..Nnz(sp) |-> k],
                                LAMBDA k : sp.indices[k][2] > lo /\ sp.indices[k][2] <= lo + sz)
            IN  SparseTensor([i \in 1..Len(ks) |-> << sp.indices[ks[i]][1], sp.indices[ks[i]][2] - lo >>],
                             [i \in 1..Len(ks) |-> sp.values[ks[i]]],
                             << sp.dense_shape[1], sz >>)])

\* dot(x, y, sparse)
dot(x, y, sparse) ==
    IF sparse THEN sparse_tensor_dense_matmul(x, y) ELSE matmul(x, y)


(***************************************************************************)
(* Dropout.  keep_prob and the uniform draws are counted in quarters:      *)
(* keepQ = 4 * keep_prob, uniform[k] in 0..3 stands for a draw in [0, 1).  *)
(***************************************************************************)
\* tf.floor(keep_prob + uniform) cast to bool
DropoutMask(keepQ, uniform, n) == [k \in 1..n |-> ((keepQ + uniform[k]) \div 4) # 0]

\* dropout_sparse with keep_prob left out of random_tensor
dropout_sparse_no_keep_prob(x, keepQ, num_nonzero_elems, uniform) ==
    LET dropout_mask == DropoutMask(0, uniform, num_nonzero_elems)
        pre_out      == sparse_retain(x, dropout_mask)
    IN  SparseScale(pre_out, 4 \div keepQ)

\* dropout_sparse returning pre_out without the factor 1 / keep_prob
dropout_sparse_unscaled(x, keepQ, num_nonzero_elems, uniform) ==
    LET noise_shape  == num_nonzero_elems
        dropout_mask == DropoutMask(keepQ, uniform, noise_shape)
    IN  sparse_retain(x, dropout_mask)

\* dropout_sparse(x, keep_prob, num_nonzero_elems)
dropout_sparse(x, keepQ, num_nonzero_elems, uniform) ==
    LET noise_shape  == num_nonzero_elems
        dropout_mask == DropoutMask(keepQ, uniform, noise_shape)
        pre_out      == sparse_retain(x, dropout_mask)
    IN  SparseScale(pre_out, 4 \div keepQ)

\* tf.nn.dropout(x, keep_prob): x / keep_prob * floor(keep_prob + uniform)
dropout(x, keepQ, uniform) ==
    Eval(
        [r \in 1..Rows(x) |-> [c \in 1..Cols(x) |->
            IF DropoutMask(keepQ, uniform, Rows(x) * Cols(x))[(r - 1) * Cols(x) + c]
            THEN x[r][c] * (4 \div keepQ) ELSE 0]])

(***************************************************************************)
(* The opaque collaborators: the initializer (initializations.py), the     *)
(* adjacency construction and the feature matrices.  Each draws a matrix   *)
(* from a small family indexed by a seed.                                  *)
(***************************************************************************)
Seeds == 0..MaxSeed

Val(m, salt, r, c) == IF m = 0 THEN 0 ELSE ((m * (2 * r + 3 * c) + r * c + salt) % 5) - 2

GenMat(m, salt, rows, cols) ==
    Eval(
        [r \in 1..rows |-> [c \in 1..cols |-> Val(m, salt, r, c)]])

WeightPat(seed, salt) == 1 + ((seed + salt) % (MaxSeed + 1))

NameSalt(s) ==
    CASE s = "weights_u" -> 1 [] s = "weights_v" -> 2
      [] s = "user_bias" -> 3 [] s = "item_bias" -> 4
      [] s = "bias_u" -> 3    [] s = "bias_v" -> 4
      [] s = "weights_A" -> 5 [] s = "weights_B" -> 6
      [] s = "Ui1" -> 1 [] s = "Uj1" -> 2 [] s = "Vi1" -> 3 [] s = "Vj1" -> 4
      [] s = "Ui2" -> 5 [] s = "Uj2" -> 6 [] s = "Vi2" -> 7 [] s = "Vj2" -> 8
      [] s = "bu1" -> 9 [] s = "bv1" -> 10 [] s = "bu2" -> 11 [] s = "bv2" -> 12
      [] s = "weights" -> 1 [] s = "weights_u_scalars" -> 2
      [] OTHER -> 0

\* weight_variable_random_uniform / orthogonal / bias_variable_truncated_normal /
\* bias_variable_const: some matrix of the shape asked for
RandomValue(nm, seed, rows, cols) ==
    GenMat(WeightPat(seed, NameSalt(nm[1]) + nm[2]), NameSalt(nm[1]) + 3 * nm[2], rows, cols)

\* the skip matrix R: the family holds the zero matrix (seed 0)
SkipValue(seed, rows, cols) == GenMat(seed, 0, rows, cols)

IsZeroBias(s) == s \in {"bu1", "bv1", "bu2", "bv2"}

\* the value a variable is created with
InitValue(nm, seed, rows, cols) ==
    IF nm[1] = "R" THEN SkipValue(seed, rows, cols)
    ELSE IF IsZeroBias(nm[1]) THEN Zeros(rows, cols)
    ELSE RandomValue(nm, seed, rows, cols)

\* the value a training step leaves in a variable that held old: every entry moves
TrainedValue(nm, old) ==
    add(old, GenMat(1, NameSalt(nm[1]) + nm[2], Rows(old), Cols(old)))

\* feature matrices X_A (nu x input_dim) and X_B (nv x input_dim)
Features(seed, salt, rows, cols) == GenMat(WeightPat(seed, salt), salt, rows, cols)

\* uniform draws of one forward evaluation
Uniform(nseed, n) == [k \in 1..n |-> ((nseed + 1) * k) % 4]

\* relation r's adjacency S_r (nu x nv), dense
Adjacency(seed, r, nu, nv) == GenMat(WeightPat(seed, r), 7 + r, nu, nv)

\* the stacked support matrix: S_1 .. S_R side by side (nu x R*nv) ...
StackedSupport(seed, R, nu, nv) ==
    FromDense(concat1([r \in 1..R |-> Adjacency(seed, r, nu, nv)]))

\* ... and the stacked transposes S_1^T .. S_R^T (nv x R*nu)
StackedSupportT(seed, R, nu, nv) ==
    FromDense(concat1([r \in 1..R |-> Transpose(Adjacency(seed, r, nu, nv))]))

\* the support / support_t arguments of a constructor: the stacked matrices of
\* the graph, or malformed ones: a.extra columns too many in support, or a
\* support_t stacked for a.extra_t more users than support has rows
SupportArg(a) ==
    IF a.extra = 0 THEN StackedSupport(a.seed, a.num_support, a.nu, a.nv)
    ELSE FromDense(concat1(<< concat1([r \in 1..a.num_support |->
                                         Adjacency(a.seed, r, a.nu, a.nv)]),
                              GenMat(1, 1, a.nu, a.extra) >>))

SupportTArg(a) == StackedSupportT(a.seed, a.num_support, a.nu + a.extra_t, a.nv)

\* edge-to-node incidence matrices (E x V) of relation r: one 1 per row
Incidence(seed, r, salt, ne, nn) ==
    SparseTensor([e \in 1..ne |-> << e, 1 + ((seed + salt * r + (salt + 1) * e) % nn) >>],
                 [e \in 1..ne |-> 1], << ne, nn >>)

EStartList(seed, n, ne, nn) == [r \in 1..n |-> Incidence(seed, r, 1, ne, nn)]

EEndList(seed, n, ne, nn) == [r \in 1..n |-> Incidence(seed, r, 2, ne, nn)]


(***************************************************************************)
(* State.                                                                  *)
(***************************************************************************)
VARIABLES
    LAYER_UIDS,   \* _LAYER_UIDS: layer name -> last uid handed out (0: absent)
    attempts,     \* the constructor calls made so far, with their outcomes
    kwargs,       \* the arguments of the last constructor call
    layer,        \* the layer object the last constructor call returned
    variables,    \* the tf variables created by that call: name -> value
    err,          \* outcome of the last constructor call
    trained,      \* whether a training step has updated the variables
    pc,           \* position of the forward evaluation (_call)
    inputs,       \* inputs of the forward evaluation, and its uniform draws
    order,        \* the order in which the relations are evaluated
    loc,          \* the locals of _call
    ret           \* what _call returned

vrs == << LAYER_UIDS, attempts, kwargs, layer, variables, err, trained, pc, inputs, order, loc, ret >>

Classes ==
    {"Dense", "OrdinalRGGCN", "StackRGGCN", "StackRGGCNDouble", "StackSimple",
     "StackGCNGate", "StackGCN", "OrdinalMixtureGCN", "BilinearMixture"}

StackedClasses == {"StackGCN", "StackGCNGate", "StackRGGCN", "StackRGGCNDouble", "StackSimple"}

GatedResidual == {"OrdinalRGGCN", "StackRGGCN", "StackRGGCNDouble", "StackSimple"}

TwoStage == {"OrdinalRGGCN", "StackRGGCNDouble", "StackSimple"}

Ordinal == {"OrdinalRGGCN", "OrdinalMixtureGCN"}

(***************************************************************************)
(* References to tensors derived from variables.  A layer attribute such   *)
(* as self.weights_u[i] is an op on a variable (a column block of it, or   *)
(* the variable itself): reading it reads the variable's current value.    *)
(***************************************************************************)
Ref(var, block, of) == [var |-> var, block |-> block, of |-> of]

Whole(nm) == Ref(nm, 1, 1)

\* tf.split(value=var, axis=1, num_or_size_splits=n) of the variable nm
SplitRefs(nm, n) == [j \in 1..n |-> Ref(nm, j, n)]

\* tf.stack([variable name_i for i in range(n)], axis=0)
StackRefs(s, n) == [j \in 1..n |-> Whole(<< s, j - 1 >>)]

StackNames(s, n) == {<< s, j >> : j \in 0..(n - 1)}

Deref(vs, ref) == split(vs[ref.var], ref.of)[ref.block]

NoVariables == [nm \in {} |-> << >>]

Alloc(names, seed, rows, cols) == [nm \in names |-> InitValue(nm, seed, rows, cols)]

NoLayer ==
    [cls |-> "None", name |-> << >>, args |-> << >>,
     sparse_inputs |-> FALSE, dropout |-> 0, act |-> "relu", bias |-> FALSE,
     u_features_nonzero |-> "None", v_features_nonzero |-> "None",
     support |-> << >>, support_transpose |-> << >>,
     self_connections |-> FALSE,
     u_self_connections |-> << >>, v_self_connections |-> << >>,
     weights_u |-> << >>, weights_v |-> << >>,
     weights_u_self_conn |-> << >>, weights_v_self_conn |-> << >>,
     weights_A |-> << >>, weights_B |-> << >>,
     user_bias |-> << >>, item_bias |-> << >>,
     E_start |-> << >>, E_end |-> << >>,
     Ui1 |-> << >>, Uj1 |-> << >>, Vi1 |-> << >>, Vj1 |-> << >>, bu1 |-> << >>, bv1 |-> << >>,
     Ui2 |-> << >>, Uj2 |-> << >>, Vi2 |-> << >>, Vj2 |-> << >>, bu2 |-> << >>, bv2 |-> << >>,
     R |-> << >>,
     num_classes |-> 0, num_weights |-> 0, u_indices |-> << >>, v_indices |-> << >>,
     user_item_bias |-> FALSE, diagonal |-> FALSE,
     weights |-> << >>, weights_scalars |-> << >>]

\* a constructor that raised: no object, and the variables created before the raise
Raised(kind, vs) == [err |-> kind, layer |-> NoLayer, variables |-> vs]

Built(l, vs) == [err |-> "ok", layer |-> l, variables |-> vs]

(***************************************************************************)
(* Layer.__init__ and get_layer_uid.                                       *)
(***************************************************************************)
\* get_layer_uid(layer_name): the uid returned and the dictionary left
get_layer_uid(layer_name, uids) ==
    IF uids[layer_name] = 0
    THEN [uid |-> 1, uids |-> [uids EXCEPT ![layer_name] = 1]]
    ELSE [uid |-> uids[layer_name] + 1,
          uids |-> [uids EXCEPT ![layer_name] = uids[layer_name] + 1]]

\* self.__class__.__name__.lower()
lower(cls) ==
    CASE cls = "Dense" -> "dense"
      [] cls = "OrdinalRGGCN" -> "ordinalrggcn"
      [] cls = "StackRGGCN" -> "stackrggcn"
      [] cls = "StackRGGCNDouble" -> "stackrggcndouble"
      [] cls = "StackSimple" -> "stacksimple"
      [] cls = "StackGCNGate" -> "stackgcngate"
      [] cls = "StackGCN" -> "stackgcn"
      [] cls = "OrdinalMixtureGCN" -> "ordinalmixturegcn"
      [] cls = "BilinearMixture" -> "bilinearmixture"

\* kw: "invalid" (a keyword other than name, logging), "name" (name given),
\* "empty" (name = ''), "auto" (no name).  The name layer + '_' + str(uid) is
\* kept as the pair << layer, uid >>.
Layer_init(cls, kw, uids) ==
    IF kw = "invalid"
    THEN [err |-> "AssertionError", name |-> << >>, uids |-> uids]
    ELSE IF kw = "name"
    THEN [err |-> "ok", name |-> << "given", 0 >>, uids |-> uids]
    ELSE LET layer_name == lower(cls)
         IN  [err |-> "ok", name |-> << layer_name, get_layer_uid(layer_name, uids).uid >>,
              uids |-> get_layer_uid(layer_name, uids).uids]

\* the attributes every constructor stores from its arguments
Base(a, name) ==
    [NoLayer EXCEPT !.cls = a.cls, !.name = name, !.args = a,
                    !.dropout = a.dropoutQ, !.act = a.act]


(***************************************************************************)
(* Constructors.  a: the constructor's arguments; name: the layer's name.  *)
(* Each returns the outcome, the object and the variables created.         *)
(***************************************************************************)
W0(s) == << s, 0 >>

\* Dense.__init__
Dense_init(a, name) ==
    LET wnames == IF a.share THEN {W0("weights_u")} ELSE {W0("weights_u"), W0("weights_v")}
        bnames == IF ~a.bias THEN {}
                  ELSE IF a.share THEN {W0("user_bias")}
                  ELSE {W0("user_bias"), W0("item_bias")}
        vs     == Alloc(wnames, a.seed, a.input_dim, a.output_dim)
                    @@ Alloc(bnames, a.seed, 1, a.output_dim)
    IN  Built([Base(a, name) EXCEPT
                 !.weights_u = << Whole(W0("weights_u")) >>,
                 !.weights_v = << Whole(IF a.share THEN W0("weights_u") ELSE W0("weights_v")) >>,
                 !.user_bias = IF a.bias THEN << Whole(W0("user_bias")) >> ELSE << >>,
                 !.item_bias = IF ~a.bias THEN << >>
                               ELSE << Whole(IF a.share THEN W0("user_bias") ELSE W0("item_bias")) >>,
                 !.bias = a.bias],
              vs)

\* the variables of one convolution stage of OrdinalRGGCN: R stacked matrices each
OrdinalStageVars(a, tag, rows) ==
    Alloc(StackNames("Ui" \o tag, a.num_support) \cup StackNames("Uj" \o tag, a.num_support)
            \cup StackNames("Vi" \o tag, a.num_support) \cup StackNames("Vj" \o tag, a.num_support),
          a.seed, rows, a.output_dim)
      @@ Alloc({W0("bu" \o tag), W0("bv" \o tag)}, a.seed, 1, a.output_dim)

\* OrdinalRGGCN.__init__
OrdinalRGGCN_init(a, name) ==
    IF a.nstart # a.num_support THEN Raised("AssertionError", NoVariables)
    ELSE LET vs == OrdinalStageVars(a, "1", a.input_dim)
                     @@ OrdinalStageVars(a, "2", a.output_dim)
                     @@ Alloc({W0("R")}, a.seed, a.input_dim, a.output_dim)
         IN  Built([Base(a, name) EXCEPT
                      !.sparse_inputs = a.sparse_inputs,
                      !.Ui1 = StackRefs("Ui1", a.num_support), !.Uj1 = StackRefs("Uj1", a.num_support),
                      !.Vi1 = StackRefs("Vi1", a.num_support), !.Vj1 = StackRefs("Vj1", a.num_support),
                      !.bu1 = << Whole(W0("bu1")) >>, !.bv1 = << Whole(W0("bv1")) >>,
                      !.Ui2 = StackRefs("Ui2", a.num_support), !.Uj2 = StackRefs("Uj2", a.num_support),
                      !.Vi2 = StackRefs("Vi2", a.num_support), !.Vj2 = StackRefs("Vj2", a.num_support),
                      !.bu2 = << Whole(W0("bu2")) >>, !.bv2 = << Whole(W0("bv2")) >>,
                      !.R = Whole(W0("R")),
                      !.E_start = EStartList(a.seed, a.nstart, a.ne, a.nu + a.nv),
                      !.E_end = EEndList(a.seed, a.nend, a.ne, a.nu + a.nv)],
                   vs)

\* the variables of one convolution stage with split weights
\* (get_weight_variable, get_bias_variable)
SplitStageVars(a, tag, rows) ==
    Alloc({W0("Ui" \o tag), W0("Uj" \o tag), W0("Vi" \o tag), W0("Vj" \o tag)},
          a.seed, rows, a.output_dim)
      @@ Alloc({W0("bu" \o tag), W0("bv" \o tag)}, a.seed, 1, a.output_dim)

\* the attributes of conv1 (with split weights), the skip matrix and the adjacency lists
SplitStage1(a, name) ==
    [Base(a, name) EXCEPT
       !.sparse_inputs = a.sparse_inputs,
       !.Ui1 = SplitRefs(W0("Ui1"), a.num_support), !.Uj1 = SplitRefs(W0("Uj1"), a.num_support),
       !.Vi1 = SplitRefs(W0("Vi1"), a.num_support), !.Vj1 = SplitRefs(W0("Vj1"), a.num_support),
       !.bu1 = SplitRefs(W0("bu1"), a.num_support), !.bv1 = SplitRefs(W0("bv1"), a.num_support),
       !.R = Whole(W0("R")),
       !.E_start = EStartList(a.seed, a.nstart, a.ne, a.nu + a.nv),
       !.E_end = EEndList(a.seed, a.nend, a.ne, a.nu + a.nv)]

\* ... and of conv2
SplitStage2(a, name) ==
    [SplitStage1(a, name) EXCEPT
       !.Ui2 = SplitRefs(W0("Ui2"), a.num_support), !.Uj2 = SplitRefs(W0("Uj2"), a.num_support),
       !.Vi2 = SplitRefs(W0("Vi2"), a.num_support), !.Vj2 = SplitRefs(W0("Vj2"), a.num_support),
       !.bu2 = SplitRefs(W0("bu2"), a.num_support), !.bv2 = SplitRefs(W0("bv2"), a.num_support)]

\* StackRGGCN.__init__
StackRGGCN_init(a, name) ==
    IF a.output_dim % a.num_support # 0 THEN Raised("AssertionError", NoVariables)
    ELSE IF a.nstart # a.num_support THEN Raised("AssertionError", NoVariables)
    ELSE Built(SplitStage1(a, name),
               SplitStageVars(a, "1", a.input_dim)
                 @@ Alloc({W0("R")}, a.seed, a.input_dim, a.output_dim))

\* StackRGGCNDouble.__init__
StackRGGCNDouble_init(a, name) ==
    IF a.output_dim % a.num_support # 0 THEN Raised("AssertionError", NoVariables)
    ELSE IF a.nstart # a.num_support THEN Raised("AssertionError", NoVariables)
    ELSE Built(SplitStage2(a, name),
               SplitStageVars(a, "1", a.input_dim) @@ SplitStageVars(a, "2", a.output_dim)
                 @@ Alloc({W0("R")}, a.seed, a.input_dim, a.output_dim))

\* StackSimple.__init__
StackSimple_init(a, name) ==
    IF a.output_dim % a.num_support # 0 THEN Raised("AssertionError", NoVariables)
    ELSE IF a.nstart # a.num_support THEN Raised("AssertionError", NoVariables)
    ELSE Built(SplitStage2(a, name),
               SplitStageVars(a, "1", a.input_dim) @@ SplitStageVars(a, "2", a.output_dim)
                 @@ Alloc({W0("R")}, a.seed, a.input_dim, a.output_dim))

\* weights_u, and weights_v unless shared
UVVars(a) ==
    Alloc(IF a.share THEN {W0("weights_u")} ELSE {W0("weights_u"), W0("weights_v")},
          a.seed, a.input_dim, a.output_dim)

\* weights_v always a variable of its own
VName_own(a) == W0("weights_v")

\* self.vars['weights_v']
VName(a) == IF a.share THEN W0("weights_u") ELSE W0("weights_v")

\* the attributes StackGCN and StackGCNGate share
StackAttrs(a, name) ==
    [Base(a, name) EXCEPT
       !.weights_u = SplitRefs(W0("weights_u"), a.num_support),
       !.weights_v = SplitRefs(VName(a), a.num_support),
       !.sparse_inputs = a.sparse_inputs,
       !.u_features_nonzero = a.nonzero, !.v_features_nonzero = a.nonzero,
       !.support = sparse_split(a.num_support, SupportArg(a)),
       !.support_transpose = sparse_split(a.num_support, SupportTArg(a))]

\* StackGCNGate.__init__ without the assertion on the nonzero counts
StackGCNGate_init_counts_unchecked(a, name) ==
    IF a.output_dim % a.num_support # 0 THEN Raised("AssertionError", NoVariables)
    ELSE LET vs == UVVars(a) @@ Alloc({W0("weights_A"), W0("weights_B")},
                                       a.seed, a.input_dim, a.output_dim)
         IN  Built([StackAttrs(a, name) EXCEPT
                      !.weights_A = SplitRefs(W0("weights_A"), a.num_support),
                      !.weights_B = SplitRefs(W0("weights_B"), a.num_support)],
                   vs)

\* StackGCNGate.__init__
StackGCNGate_init(a, name) ==
    IF a.output_dim % a.num_support # 0 THEN Raised("AssertionError", NoVariables)
    ELSE LET vs == UVVars(a) @@ Alloc({W0("weights_A"), W0("weights_B")},
                                       a.seed, a.input_dim, a.output_dim)
         IN  IF a.sparse_inputs /\ a.nonzero = "None" THEN Raised("AssertionError", vs)
             ELSE Built([StackAttrs(a, name) EXCEPT
                           !.weights_A = SplitRefs(W0("weights_A"), a.num_support),
                           !.weights_B = SplitRefs(W0("weights_B"), a.num_support)],
                        vs)

\* StackGCN.__init__ with the divisibility assertion after the allocation
StackGCN_init_late_assert(a, name) ==
    IF a.output_dim % a.num_support # 0 THEN Raised("AssertionError", UVVars(a))
    ELSE IF a.sparse_inputs /\ a.nonzero = "None" THEN Raised("AssertionError", UVVars(a))
    ELSE Built(StackAttrs(a, name), UVVars(a))

\* StackGCN.__init__
StackGCN_init(a, name) ==
    IF a.output_dim % a.num_support # 0 THEN Raised("AssertionError", NoVariables)
    ELSE IF a.sparse_inputs /\ a.nonzero = "None" THEN Raised("AssertionError", UVVars(a))
    ELSE Built(StackAttrs(a, name), UVVars(a))

\* x[:-1] of a list or stacked tensor
AllButLast(x) == SubSeq(x, 1, Len(x) - 1)

\* the self-connection weights of OrdinalMixtureGCN: self.weights_u has been
\* cut to weights_u[:-1] when self.weights_u[-1] is read
SelfConnWeight(weights) == AllButLast(weights)[Len(AllButLast(weights))]

\* OrdinalMixtureGCN.__init__
OrdinalMixtureGCN_init(a, name) ==
    LET wnames == StackNames("weights_u", a.num_support)
                    \cup (IF a.share THEN {} ELSE StackNames("weights_v", a.num_support))
        bnames == IF ~a.bias THEN {}
                  ELSE IF a.share THEN {W0("bias_u")} ELSE {W0("bias_u"), W0("bias_v")}
        vs     == Alloc(wnames, a.seed, a.input_dim, a.output_dim)
                    @@ Alloc(bnames, a.seed, 1, a.output_dim)
        wu     == StackRefs("weights_u", a.num_support)
        wv     == StackRefs(IF a.share THEN "weights_u" ELSE "weights_v", a.num_support)
        sup    == sparse_split(a.num_support, SupportArg(a))
        sup_t  == sparse_split(a.num_support, SupportTArg(a))
        l      == [Base(a, name) EXCEPT
                     !.weights_u = wu, !.weights_v = wv,
                     !.user_bias = IF a.bias THEN << Whole(W0("bias_u")) >> ELSE << >>,
                     !.item_bias = IF ~a.bias THEN << >>
                                   ELSE << Whole(IF a.share THEN W0("bias_u") ELSE W0("bias_v")) >>,
                     !.bias = a.bias,
                     !.sparse_inputs = a.sparse_inputs,
                     !.u_features_nonzero = a.nonzero, !.v_features_nonzero = a.nonzero,
                     !.self_connections = a.self_connections,
                     !.support = sup, !.support_transpose = sup_t]
    IN  IF a.sparse_inputs /\ a.nonzero = "None" THEN Raised("AssertionError", vs)
        ELSE IF ~a.self_connections THEN Built(l, vs)
        ELSE IF Len(AllButLast(wu)) = 0 THEN Raised("ValueError", vs)
        ELSE Built([l EXCEPT
                      !.support = AllButLast(sup),
                      !.support_transpose = AllButLast(sup_t),
                      !.u_self_connections = sup[Len(sup)],
                      !.v_self_connections = sup_t[Len(sup_t)],
                      !.weights_u = AllButLast(wu),
                      !.weights_v = AllButLast(wv),
                      !.weights_u_self_conn = SelfConnWeight(wu),
                      !.weights_v_self_conn = SelfConnWeight(wv)],
                   vs)

\* BilinearMixture.__init__
BilinearMixture_init(a, name) ==
    LET wnames == StackNames("weights", a.num_weights)
        vs     == Alloc(wnames, a.seed, IF a.diagonal THEN 1 ELSE a.input_dim, a.input_dim)
                    @@ Alloc({W0("weights_u_scalars")}, a.seed, a.num_weights, a.num_classes)
                    @@ (IF a.user_item_bias
                        THEN (W0("user_bias") :> Zeros(a.nu, a.num_classes))
                               @@ (W0("item_bias") :> Zeros(a.nv, a.num_classes))
                        ELSE NoVariables)
    IN  Built([Base(a, name) EXCEPT
                 !.weights = StackRefs("weights", a.num_weights),
                 !.weights_scalars = Whole(W0("weights_u_scalars")),
                 !.user_bias = IF a.user_item_bias THEN << Whole(W0("user_bias")) >> ELSE << >>,
                 !.item_bias = IF a.user_item_bias THEN << Whole(W0("item_bias")) >> ELSE << >>,
                 !.user_item_bias = a.user_item_bias,
                 !.diagonal = a.diagonal,
                 !.num_classes = a.num_classes,
                 !.num_weights = a.num_weights,
                 !.u_indices = a.u_indices,
                 !.v_indices = a.v_indices],
              vs)

\* the constructor call with the uid taken only when the layer is built
New_counts_built(a, uids) ==
    LET base == Layer_init(a.cls, a.kw, uids)
        made == CASE a.cls = "Dense" -> Dense_init(a, base.name)
                  [] a.cls = "OrdinalRGGCN" -> OrdinalRGGCN_init(a, base.name)
                  [] a.cls = "StackRGGCN" -> StackRGGCN_init(a, base.name)
                  [] a.cls = "StackRGGCNDouble" -> StackRGGCNDouble_init(a, base.name)
                  [] a.cls = "StackSimple" -> StackSimple_init(a, base.name)
                  [] a.cls = "StackGCNGate" -> StackGCNGate_init(a, base.name)
                  [] a.cls = "StackGCN" -> StackGCN_init(a, base.name)
                  [] a.cls = "BilinearMixture" -> BilinearMixture_init(a, base.name)
                  [] OTHER -> OrdinalMixtureGCN_init(a, base.name)
    IN  IF base.err # "ok"
        THEN [err |-> base.err, layer |-> NoLayer, variables |-> NoVariables, uids |-> base.uids]
        ELSE [err |-> made.err, layer |-> made.layer, variables |-> made.variables,
              uids |-> IF made.err = "ok" THEN base.uids ELSE uids]

\* cls(**args): Layer.__init__ first, then the class's own constructor
New(a, uids) ==
    LET base == Layer_init(a.cls, a.kw, uids)
        made == CASE a.cls = "Dense" -> Dense_init(a, base.name)
                  [] a.cls = "OrdinalRGGCN" -> OrdinalRGGCN_init(a, base.name)
                  [] a.cls = "StackRGGCN" -> StackRGGCN_init(a, base.name)
                  [] a.cls = "StackRGGCNDouble" -> StackRGGCNDouble_init(a, base.name)
                  [] a.cls = "StackSimple" -> StackSimple_init(a, base.name)
                  [] a.cls = "StackGCNGate" -> StackGCNGate_init(a, base.name)
                  [] a.cls = "StackGCN" -> StackGCN_init(a, base.name)
                  [] a.cls = "BilinearMixture" -> BilinearMixture_init(a, base.name)
                  [] OTHER -> OrdinalMixtureGCN_init(a, base.name)
    IN  IF base.err # "ok"
        THEN [err |-> base.err, layer |-> NoLayer, variables |-> NoVariables, uids |-> base.uids]
        ELSE [err |-> made.err, layer |-> made.layer, variables |-> made.variables,
              uids |-> base.uids]


(***************************************************************************)
(* The loop bodies of the forward evaluations, as functions of the layer   *)
(* l, the variables vs, the features and the relation index i.             *)
(***************************************************************************)
\* 1 - self.dropout, in quarters
KeepQ(l) == 4 - l.dropout

\* the iteration with weights_u[i] projecting both sides
StackGCN_body_one_weight(l, vs, x_u, x_v, i) ==
    LET tmp_u == dot(x_u, Deref(vs, l.weights_u[i]), l.sparse_inputs)
        tmp_v == dot(x_v, Deref(vs, l.weights_u[i]), l.sparse_inputs)
    IN  [u |-> sparse_tensor_dense_matmul(l.support[i], tmp_v),
         v |-> sparse_tensor_dense_matmul(l.support_transpose[i], tmp_u)]

\* the iteration with the first relation's adjacency for every relation
StackGCN_body_first_support(l, vs, x_u, x_v, i) ==
    LET tmp_u == dot(x_u, Deref(vs, l.weights_u[i]), l.sparse_inputs)
        tmp_v == dot(x_v, Deref(vs, l.weights_v[i]), l.sparse_inputs)
    IN  [u |-> sparse_tensor_dense_matmul(l.support[1], tmp_v),
         v |-> sparse_tensor_dense_matmul(l.support_transpose[1], tmp_u)]

\* StackGCN._call, one iteration: the entries appended to supports_u, supports_v
StackGCN_body(l, vs, x_u, x_v, i) ==
    LET tmp_u == dot(x_u, Deref(vs, l.weights_u[i]), l.sparse_inputs)
        tmp_v == dot(x_v, Deref(vs, l.weights_v[i]), l.sparse_inputs)
        support == l.support[i]
        support_transpose == l.support_transpose[i]
    IN  [u |-> sparse_tensor_dense_matmul(support, tmp_v),
         v |-> sparse_tensor_dense_matmul(support_transpose, tmp_u)]

\* whether the two products of one iteration of StackGCN._call /
\* OrdinalMixtureGCN._call have operands of agreeing shapes: the features'
\* projections have the rows of the features
Products_ok(l, x_u, x_v, i) ==
    LET rows_u == IF l.sparse_inputs THEN x_u.dense_shape[1] ELSE Rows(x_u)
        rows_v == IF l.sparse_inputs THEN x_v.dense_shape[1] ELSE Rows(x_v)
    IN  /\ l.support[i].dense_shape[2] = rows_v
        /\ l.support_transpose[i].dense_shape[2] = rows_u

\* StackGCNGate._call, one iteration: whether its shapes agree ...
StackGCNGate_ok(l, vs, x_u, x_v, i) ==
    LET tmp_u == dot(x_u, Deref(vs, l.weights_u[i]), l.sparse_inputs)
        tmp_v == dot(x_v, Deref(vs, l.weights_v[i]), l.sparse_inputs)
        A     == dot(x_u, Deref(vs, l.weights_A[i]), l.sparse_inputs)
        B     == dot(x_v, Deref(vs, l.weights_B[i]), l.sparse_inputs)
    IN  /\ BroadcastOk(A, B)
        /\ BroadcastOk(tmp_v, broadcast_add(A, B))
        /\ BroadcastOk(tmp_u, broadcast_add(A, B))
        /\ SpMatmulOk(l.support[i], broadcast_multiply(tmp_v, broadcast_add(A, B)))
        /\ SpMatmulOk(l.support_transpose[i], broadcast_multiply(tmp_u, broadcast_add(A, B)))

\* ... and the entries it appends (in quarters: the gate is a sigmoid)
StackGCNGate_body(l, vs, x_u, x_v, i) ==
    LET tmp_u == dot(x_u, Deref(vs, l.weights_u[i]), l.sparse_inputs)
        tmp_v == dot(x_v, Deref(vs, l.weights_v[i]), l.sparse_inputs)
        A     == dot(x_u, Deref(vs, l.weights_A[i]), l.sparse_inputs)
        B     == dot(x_v, Deref(vs, l.weights_B[i]), l.sparse_inputs)
        gate  == sigmoid(broadcast_add(A, B), 1)
        support == l.support[i]
        support_transpose == l.support_transpose[i]
        gated_v == broadcast_multiply(tmp_v, gate)
        gated_u == broadcast_multiply(tmp_u, gate)
    IN  [u |-> sparse_tensor_dense_matmul(support, gated_v),
         v |-> sparse_tensor_dense_matmul(support_transpose, gated_u)]

\* the iteration with the raw weight of relation i in place of the running sum
OrdinalMixtureGCN_body_raw(l, vs, x_u, x_v, wu, wv, i) ==
    LET wu1 == Deref(vs, l.weights_u[i])
        wv1 == Deref(vs, l.weights_v[i])
        tmp_u == dot(x_u, wu1, l.sparse_inputs)
        tmp_v == dot(x_v, wv1, l.sparse_inputs)
    IN  [wu |-> wu1, wv |-> wv1,
         u |-> sparse_tensor_dense_matmul(l.support[i], tmp_v),
         v |-> sparse_tensor_dense_matmul(l.support_transpose[i], tmp_u)]

\* OrdinalMixtureGCN._call, one iteration, from the accumulators wu, wv
OrdinalMixtureGCN_body(l, vs, x_u, x_v, wu, wv, i) ==
    LET wu1 == add(wu, Deref(vs, l.weights_u[i]))
        wv1 == add(wv, Deref(vs, l.weights_v[i]))
        tmp_u == dot(x_u, wu1, l.sparse_inputs)
        tmp_v == dot(x_v, wv1, l.sparse_inputs)
        support == l.support[i]
        support_transpose == l.support_transpose[i]
    IN  [wu |-> wu1, wv |-> wv1,
         u |-> sparse_tensor_dense_matmul(support, tmp_v),
         v |-> sparse_tensor_dense_matmul(support_transpose, tmp_u)]

\* the residual gated convolution of one relation (conv1 / conv2 of OrdinalRGGCN,
\* StackRGGCN, StackRGGCNDouble), before batch normalization.  x is stored
\* multiplied by den; the result is stored multiplied by 4 * den.
GatedConv(x, den, E_start, E_end, Ui, Uj, Vi, Vj, bu, bv) ==
    LET Vix == dot(x, Vi, FALSE)
        Vjx == dot(x, Vj, FALSE)
        x1a == add(dot(E_end, Vix, TRUE), dot(E_start, Vjx, TRUE))
        x1b == bias_add(x1a, Scale(den, bv))
        x1  == sigmoid(x1b, den)
        Uix == dot(x, Ui, FALSE)
        Ujx == dot(x, Uj, FALSE)
        x2  == dot(E_start, Ujx, TRUE)
        xa  == add(Scale(4, Uix), dot(sparse_transpose(E_end), multiply(x1, x2), TRUE))
    IN  bias_add(xa, Scale(4 * den, bu))

\* the convolution of one relation in StackSimple, before batch normalization
SimpleConv(x, den, E_start, E_end, Ui, Uj, bu) ==
    LET Uix == dot(x, Ui, FALSE)
        Ujx == dot(x, Uj, FALSE)
        x2  == dot(E_start, Ujx, TRUE)
        xa  == add(Uix, dot(sparse_transpose(E_end), x2, TRUE))
    IN  bias_add(xa, Scale(den, bu))

\* the number of batch-normalization layers in the graph
BatchNormCount(vs) == Cardinality({nm \in DOMAIN vs : nm[1] = "batch_normalization/gamma"})

\* the trainable variables tf.layers.batch_normalization(x) creates for an x of
\* cols columns when n such layers exist already (batch_normalization,
\* batch_normalization_1, ...): gamma = 1 and beta = 0.  (It also creates
\* moving_mean = 0 and moving_variance = 1, which are not trained.)
batch_normalization_vars(n, cols) ==
    (<< "batch_normalization/gamma", n >> :> [r \in 1..1 |-> [c \in 1..cols |-> 1]])
        @@ (<< "batch_normalization/beta", n >> :> Zeros(1, cols))

\* tf.layers.batch_normalization(x), training=False: the layer it creates has
\* gamma = 1, beta = 0, moving_mean = 0, moving_variance = 1, so it returns
\* gamma * (x - 0) / sqrt(1 + epsilon) + beta; the factor 1 / sqrt(1.001) is
\* taken as 1
batch_normalization(x, den) ==
    Eval(
        LET created == batch_normalization_vars(0, Cols(x))
            gamma   == created[<< "batch_normalization/gamma", 0 >>][1]
            beta    == created[<< "batch_normalization/beta", 0 >>][1]
        IN  [r \in 1..Rows(x) |-> [c \in 1..Cols(x) |-> gamma[c] * x[r][c] + den * beta[c]]])


(***************************************************************************)
(* Forward evaluation (_call), as steps over the locals of _call.          *)
(***************************************************************************)
NoLoc ==
    [k |-> 0, x_u |-> << >>, x_v |-> << >>, original_x |-> << >>, num_users |-> 0,
     wu |-> << >>, wv |-> << >>, Ui |-> << >>, Uj |-> << >>, Vi |-> << >>, Vj |-> << >>,
     self_u |-> << >>, self_v |-> << >>,
     supports_u |-> << >>, supports_v |-> << >>, outputs |-> << >>, output |-> << >>,
     u_inputs |-> << >>, v_inputs |-> << >>, u_bias |-> << >>, v_bias |-> << >>,
     basis_outputs |-> << >>]

NoRet == [u |-> << >>, v |-> << >>, den |-> 1]

NoInputs == [u |-> << >>, v |-> << >>, nseed |-> 0]

\* the inputs of one forward evaluation: the two feature matrices and the seed of
\* its uniform draws
Inputs(a, xseed, nseed) ==
    [u |-> Features(xseed, 11, a.nu, a.input_dim),
     v |-> Features(xseed, 12, a.nv, a.input_dim),
     nseed |-> nseed]

\* number of relations the loop of _call runs over: len(self.support), len(self.E_start)
NumRel(l) ==
    IF l.cls \in GatedResidual THEN Len(l.E_start)
    ELSE IF l.cls = "BilinearMixture" THEN 0
    ELSE Len(l.support)

EmptySlots(n) == [j \in 1..n |-> << >>]

\* the features as the layer receives them, after dropout (dropout_sparse of the
\* sparse tensor with its nonzero count, tf.nn.dropout of the dense one)
Dropped(l, x, nseed) ==
    IF l.sparse_inputs
    THEN dropout_sparse(FromDense(x), KeepQ(l), Nnz(FromDense(x)),
                        Uniform(nseed, Nnz(FromDense(x))))
    ELSE dropout(x, KeepQ(l), Uniform(nseed, Rows(x) * Cols(x)))

\* Dense._call
Dense_call(l, vs, inp) ==
    LET x_u == matmul(dropout(inp.u, KeepQ(l), Uniform(inp.nseed, Rows(inp.u) * Cols(inp.u))),
                      Deref(vs, l.weights_u[1]))
        x_v == matmul(dropout(inp.v, KeepQ(l), Uniform(inp.nseed + 1, Rows(inp.v) * Cols(inp.v))),
                      Deref(vs, l.weights_v[1]))
        u_outputs == Act(l.act, x_u)
        v_outputs == Act(l.act, x_v)
    IN  IF l.bias
        THEN [u |-> bias_add(u_outputs, Deref(vs, l.user_bias[1])),
              v |-> bias_add(v_outputs, Deref(vs, l.item_bias[1])), den |-> 1]
        ELSE [u |-> u_outputs, v |-> v_outputs, den |-> 1]

\* self.act(x) of the decoder: tf.nn.softmax (the default) or the identity
DecoderAct(act, x) == IF act = "softmax" THEN softmax(x) ELSE Fractions(x)

\* the decoder gathering its rows first and dropping entries of the gathered rows
BilinearMixture_gather_then_dropout(l, vs, inp) ==
    LET g_u == gather(inp.u, l.u_indices)
        g_v == gather(inp.v, l.v_indices)
    IN  [NoLoc EXCEPT
           !.x_u = g_u, !.x_v = g_v,
           !.u_inputs = dropout(g_u, KeepQ(l), Uniform(inp.nseed, Rows(g_u) * Cols(g_u))),
           !.v_inputs = dropout(g_v, KeepQ(l), Uniform(inp.nseed + 1, Rows(g_v) * Cols(g_v))),
           !.u_bias = IF l.user_item_bias THEN gather(Deref(vs, l.user_bias[1]), l.u_indices)
                      ELSE << >>,
           !.v_bias = IF l.user_item_bias THEN gather(Deref(vs, l.item_bias[1]), l.v_indices)
                      ELSE << >>]

\* BilinearMixture._call up to its loop: dropout of both inputs (x_u, x_v), then
\* the rows at u_indices / v_indices of the inputs and of the biases
BilinearMixture_gathered(l, vs, inp) ==
    LET x_u == dropout(inp.u, KeepQ(l), Uniform(inp.nseed, Rows(inp.u) * Cols(inp.u)))
        x_v == dropout(inp.v, KeepQ(l), Uniform(inp.nseed + 1, Rows(inp.v) * Cols(inp.v)))
    IN  [NoLoc EXCEPT
           !.x_u = x_u, !.x_v = x_v,
           !.u_inputs = gather(x_u, l.u_indices),
           !.v_inputs = gather(x_v, l.v_indices),
           !.u_bias = IF l.user_item_bias THEN gather(Deref(vs, l.user_bias[1]), l.u_indices)
                      ELSE << >>,
           !.v_bias = IF l.user_item_bias THEN gather(Deref(vs, l.item_bias[1]), l.v_indices)
                      ELSE << >>]

\* self._multiply_inputs_weights: tf.multiply (diagonal) or tf.matmul
multiply_inputs_weights(l, x, w) ==
    IF l.diagonal THEN broadcast_multiply(x, w) ELSE matmul(x, w)

\* the loop body with weights_0 at every basis
BilinearMixture_basis_first_weight(l, vs, lc, i) ==
    LET u_w == multiply_inputs_weights(l, lc.u_inputs, Deref(vs, l.weights[1]))
    IN  reduce_sum(multiply(u_w, lc.v_inputs))

\* the loop body of BilinearMixture._call for basis i: the vector x it appends
BilinearMixture_basis(l, vs, lc, i) ==
    LET u_w == multiply_inputs_weights(l, lc.u_inputs, Deref(vs, l.weights[i]))
    IN  reduce_sum(multiply(u_w, lc.v_inputs))

\* the stacked basis scores returned without the mixing product
BilinearMixture_logits_unmixed(l, vs, lc) ==
    LET basis_outputs == stack([i \in 1..l.num_weights |-> BilinearMixture_basis(l, vs, lc, i)],
                               Len(l.u_indices))
    IN  [lc EXCEPT !.basis_outputs = basis_outputs, !.output = basis_outputs]

\* the loop, tf.stack, the mixing product and the biases: the locals with
\* basis_outputs and the pre-activation outputs (output)
BilinearMixture_logits(l, vs, lc) ==
    LET basis_outputs == stack([i \in 1..l.num_weights |-> BilinearMixture_basis(l, vs, lc, i)],
                               Len(l.u_indices))
        outputs       == matmul(basis_outputs, Deref(vs, l.weights_scalars))
    IN  [lc EXCEPT !.basis_outputs = basis_outputs,
                   !.output = IF l.user_item_bias
                              THEN add(add(outputs, lc.u_bias), lc.v_bias)
                              ELSE outputs]

\* the biases added to the activation's result instead of its argument
BilinearMixture_call_bias_last(l, vs, inp) ==
    LET lc  == BilinearMixture_logits([l EXCEPT !.user_item_bias = FALSE], vs,
                                      BilinearMixture_gathered(l, vs, inp))
        out == DecoderAct(l.act, lc.output)
        b   == IF l.user_item_bias THEN add(lc.u_bias, lc.v_bias)
               ELSE Zeros(Rows(out), Cols(out))
    IN  [loc |-> lc,
         ret |-> [u |-> [r \in 1..Rows(out) |-> [c \in 1..Cols(out) |->
                           << out[r][c][1] + b[r][c] * out[r][c][2], out[r][c][2] >>]],
                  v |-> << >>, den |-> 1]]

\* BilinearMixture._call: the locals it leaves and the outputs it returns
BilinearMixture_call(l, vs, inp) ==
    LET lc == BilinearMixture_logits(l, vs, BilinearMixture_gathered(l, vs, inp))
    IN  [loc |-> lc, ret |-> [u |-> DecoderAct(l.act, lc.output), v |-> << >>, den |-> 1]]

\* the part of _call before its first loop: [ok, loc]
CallStart(l, vs, inp) ==
    IF l.cls \in GatedResidual
    THEN LET x == dropout(concat0(inp.u, inp.v), KeepQ(l),
                          Uniform(inp.nseed, (Rows(inp.u) + Rows(inp.v)) * Cols(inp.u)))
             z == Zeros(l.args.input_dim, l.args.output_dim)
         IN  [ok |-> TRUE,
              loc |-> [NoLoc EXCEPT !.original_x = x, !.num_users = Rows(inp.u),
                                    !.outputs = EmptySlots(NumRel(l)),
                                    !.Ui = z, !.Uj = z, !.Vi = z, !.Vj = z]]
    ELSE LET x_u == Dropped(l, inp.u, inp.nseed)
             x_v == Dropped(l, inp.v, inp.nseed + 1)
             z   == Zeros(l.args.input_dim, l.args.output_dim)
             loc0 == [NoLoc EXCEPT !.x_u = x_u, !.x_v = x_v,
                                   !.supports_u = EmptySlots(NumRel(l)),
                                   !.supports_v = EmptySlots(NumRel(l)),
                                   !.wu = z, !.wv = z]
         IN  IF l.cls = "OrdinalMixtureGCN" /\ l.self_connections
             THEN LET uw == dot(x_u, Deref(vs, l.weights_u_self_conn), l.sparse_inputs)
                      vw == dot(x_v, Deref(vs, l.weights_v_self_conn), l.sparse_inputs)
                  IN  IF SpMatmulOk(l.u_self_connections, uw) /\ SpMatmulOk(l.v_self_connections, vw)
                      THEN [ok |-> TRUE,
                            loc |-> [loc0 EXCEPT
                                       !.self_u = sparse_tensor_dense_matmul(l.u_self_connections, uw),
                                       !.self_v = sparse_tensor_dense_matmul(l.v_self_connections, vw)]]
                      ELSE [ok |-> FALSE, loc |-> loc0]
             ELSE [ok |-> TRUE, loc |-> loc0]

\* whether self.E_end[i] exists in the loop over range(len(self.E_start))
Index_ok(l, i) == i <= Len(l.E_end)

\* the denominator of the tensor conv1 / conv2 reads, and of the one it appends
DenIn(l, stage) == IF stage = 1 \/ l.cls = "StackSimple" THEN 1 ELSE 4

DenOut(l, stage) == IF l.cls = "StackSimple" THEN 1 ELSE 4 * DenIn(l, stage)

\* the iteration with each stage adding its own bias vectors (bu2 / bv2 in conv2)
Gated_step_own_bias(l, vs, lc, stage, i) ==
    LET x   == IF stage = 1 THEN lc.original_x ELSE lc.output
        den == DenIn(l, stage)
        Uis == IF stage = 1 THEN l.Ui1 ELSE l.Ui2
        Ujs == IF stage = 1 THEN l.Uj1 ELSE l.Uj2
        Vis == IF stage = 1 THEN l.Vi1 ELSE l.Vi2
        Vjs == IF stage = 1 THEN l.Vj1 ELSE l.Vj2
        bus == IF stage = 1 THEN l.bu1 ELSE l.bu2
        bvs == IF stage = 1 THEN l.bv1 ELSE l.bv2
        bu  == Deref(vs, IF l.cls = "OrdinalRGGCN" THEN bus[1] ELSE bus[i])
        bv  == Deref(vs, IF l.cls = "OrdinalRGGCN" THEN bvs[1] ELSE bvs[i])
        Ui  == IF l.cls = "OrdinalRGGCN" THEN add(lc.Ui, Deref(vs, Uis[i])) ELSE Deref(vs, Uis[i])
        Uj  == IF l.cls = "OrdinalRGGCN" THEN add(lc.Uj, Deref(vs, Ujs[i])) ELSE Deref(vs, Ujs[i])
        Vi  == IF l.cls = "OrdinalRGGCN" THEN add(lc.Vi, Deref(vs, Vis[i])) ELSE Deref(vs, Vis[i])
        Vj  == IF l.cls = "OrdinalRGGCN" THEN add(lc.Vj, Deref(vs, Vjs[i])) ELSE Deref(vs, Vjs[i])
        conv == IF l.cls = "StackSimple"
                THEN SimpleConv(x, den, l.E_start[i], l.E_end[i], Ui, Uj, bu)
                ELSE GatedConv(x, den, l.E_start[i], l.E_end[i], Ui, Uj, Vi, Vj, bu, bv)
        bn  == batch_normalization(conv, DenOut(l, stage))
        out == IF stage = 1 THEN relu(bn) ELSE bn
    IN  IF l.cls = "OrdinalRGGCN"
        THEN [lc EXCEPT !.k = @ + 1, !.outputs[i] = out,
                         !.Ui = Ui, !.Uj = Uj, !.Vi = Vi, !.Vj = Vj]
        ELSE [lc EXCEPT !.k = @ + 1, !.outputs[i] = out]

\* the iteration with StackSimple gating its messages as StackRGGCNDouble does
Gated_step_simple_gated(l, vs, lc, stage, i) ==
    LET x   == IF stage = 1 THEN lc.original_x ELSE lc.output
        den == DenIn(l, stage)
        Uis == IF stage = 1 THEN l.Ui1 ELSE l.Ui2
        Ujs == IF stage = 1 THEN l.Uj1 ELSE l.Uj2
        Vis == IF stage = 1 THEN l.Vi1 ELSE l.Vi2
        Vjs == IF stage = 1 THEN l.Vj1 ELSE l.Vj2
        \* both stages add self.bu1 / self.bv1
        bu  == Deref(vs, IF l.cls = "OrdinalRGGCN" THEN l.bu1[1] ELSE l.bu1[i])
        bv  == Deref(vs, IF l.cls = "OrdinalRGGCN" THEN l.bv1[1] ELSE l.bv1[i])
        Ui  == IF l.cls = "OrdinalRGGCN" THEN add(lc.Ui, Deref(vs, Uis[i])) ELSE Deref(vs, Uis[i])
        Uj  == IF l.cls = "OrdinalRGGCN" THEN add(lc.Uj, Deref(vs, Ujs[i])) ELSE Deref(vs, Ujs[i])
        Vi  == IF l.cls = "OrdinalRGGCN" THEN add(lc.Vi, Deref(vs, Vis[i])) ELSE Deref(vs, Vis[i])
        Vj  == IF l.cls = "OrdinalRGGCN" THEN add(lc.Vj, Deref(vs, Vjs[i])) ELSE Deref(vs, Vjs[i])
        conv == GatedConv(x, den, l.E_start[i], l.E_end[i], Ui, Uj, Vi, Vj, bu, bv)
        bn  == batch_normalization(conv, DenOut(l, stage))
        out == IF stage = 1 THEN relu(bn) ELSE bn
    IN  IF l.cls = "OrdinalRGGCN"
        THEN [lc EXCEPT !.k = @ + 1, !.outputs[i] = out,
                         !.Ui = Ui, !.Uj = Uj, !.Vi = Vi, !.Vj = Vj]
        ELSE [lc EXCEPT !.k = @ + 1, !.outputs[i] = out]

\* one iteration of the conv1 loop (stage 1) or conv2 loop (stage 2) of the
\* gated-residual layers, for relation i: the locals it leaves
Gated_step(l, vs, lc, stage, i) ==
    LET x   == IF stage = 1 THEN lc.original_x ELSE lc.output
        den == DenIn(l, stage)
        Uis == IF stage = 1 THEN l.Ui1 ELSE l.Ui2
        Ujs == IF stage = 1 THEN l.Uj1 ELSE l.Uj2
        Vis == IF stage = 1 THEN l.Vi1 ELSE l.Vi2
        Vjs == IF stage = 1 THEN l.Vj1 ELSE l.Vj2
        \* both stages add self.bu1 / self.bv1
        bu  == Deref(vs, IF l.cls = "OrdinalRGGCN" THEN l.bu1[1] ELSE l.bu1[i])
        bv  == Deref(vs, IF l.cls = "OrdinalRGGCN" THEN l.bv1[1] ELSE l.bv1[i])
        Ui  == IF l.cls = "OrdinalRGGCN" THEN add(lc.Ui, Deref(vs, Uis[i])) ELSE Deref(vs, Uis[i])
        Uj  == IF l.cls = "OrdinalRGGCN" THEN add(lc.Uj, Deref(vs, Ujs[i])) ELSE Deref(vs, Ujs[i])
        Vi  == IF l.cls = "OrdinalRGGCN" THEN add(lc.Vi, Deref(vs, Vis[i])) ELSE Deref(vs, Vis[i])
        Vj  == IF l.cls = "OrdinalRGGCN" THEN add(lc.Vj, Deref(vs, Vjs[i])) ELSE Deref(vs, Vjs[i])
        conv == IF l.cls = "StackSimple"
                THEN SimpleConv(x, den, l.E_start[i], l.E_end[i], Ui, Uj, bu)
                ELSE GatedConv(x, den, l.E_start[i], l.E_end[i], Ui, Uj, Vi, Vj, bu, bv)
        bn  == batch_normalization(conv, DenOut(l, stage))
        out == IF stage = 1 THEN relu(bn) ELSE bn
    IN  IF l.cls = "OrdinalRGGCN"
        THEN [lc EXCEPT !.k = @ + 1, !.outputs[i] = out,
                         !.Ui = Ui, !.Uj = Uj, !.Vi = Vi, !.Vj = Vj]
        ELSE [lc EXCEPT !.k = @ + 1, !.outputs[i] = out]

\* the iteration adding to self.bu1 in place
Gated_step_vars_in_place(l, vs, lc, stage, i) ==
    LET Ui == Deref(vs, (IF stage = 1 THEN l.Ui1 ELSE l.Ui2)[i])
        bu == (IF l.cls = "OrdinalRGGCN" THEN l.bu1[1] ELSE l.bu1[i]).var
    IN  [nm \in DOMAIN vs |->
            IF nm = bu THEN add(vs[nm], GenMat(1, 1, Rows(vs[nm]), Cols(vs[nm]))) ELSE vs[nm]]
          @@ batch_normalization_vars(BatchNormCount(vs), Cols(Ui))

\* the variables after that iteration: it runs tf.layers.batch_normalization,
\* which adds its own
Gated_step_vars(l, vs, lc, stage, i) ==
    LET Ui == Deref(vs, (IF stage = 1 THEN l.Ui1 ELSE l.Ui2)[i])
    IN  vs @@ batch_normalization_vars(BatchNormCount(vs), Cols(Ui))

\* the iteration of StackGCN reading the adjacency at the loop counter, not at i
Conv_step_counter(l, vs, lc, i) ==
    IF l.cls = "StackGCN"
    THEN LET b == StackGCN_body([l EXCEPT !.support[i] = l.support[lc.k + 1],
                                          !.support_transpose[i] = l.support_transpose[lc.k + 1]],
                                vs, lc.x_u, lc.x_v, i)
         IN  [lc EXCEPT !.k = @ + 1, !.supports_u[i] = b.u, !.supports_v[i] = b.v]
    ELSE IF l.cls = "StackGCNGate"
    THEN LET b == StackGCNGate_body(l, vs, lc.x_u, lc.x_v, i)
         IN  [lc EXCEPT !.k = @ + 1, !.supports_u[i] = b.u, !.supports_v[i] = b.v]
    ELSE LET b == OrdinalMixtureGCN_body(l, vs, lc.x_u, lc.x_v, lc.wu, lc.wv, i)
         IN  [lc EXCEPT !.k = @ + 1, !.supports_u[i] = b.u, !.supports_v[i] = b.v,
                         !.wu = b.wu, !.wv = b.wv]

\* one iteration of the loop of StackGCN, StackGCNGate, OrdinalMixtureGCN
Conv_step(l, vs, lc, i) ==
    IF l.cls = "StackGCN"
    THEN LET b == StackGCN_body(l, vs, lc.x_u, lc.x_v, i)
         IN  [lc EXCEPT !.k = @ + 1, !.supports_u[i] = b.u, !.supports_v[i] = b.v]
    ELSE IF l.cls = "StackGCNGate"
    THEN LET b == StackGCNGate_body(l, vs, lc.x_u, lc.x_v, i)
         IN  [lc EXCEPT !.k = @ + 1, !.supports_u[i] = b.u, !.supports_v[i] = b.v]
    ELSE LET b == OrdinalMixtureGCN_body(l, vs, lc.x_u, lc.x_v, lc.wu, lc.wv, i)
         IN  [lc EXCEPT !.k = @ + 1, !.supports_u[i] = b.u, !.supports_v[i] = b.v,
                         !.wu = b.wu, !.wv = b.wv]

\* the end of _call keeping the first relation's block only
Stack_finish_first_block(l, lc) ==
    [u |-> Act(l.act, lc.supports_u[1]), v |-> Act(l.act, lc.supports_v[1]),
     den |-> IF l.cls = "StackGCNGate" THEN 4 ELSE 1]

\* the end of StackGCN._call / StackGCNGate._call: concatenate, activate
Stack_finish(l, lc) ==
    LET z_u == concat1(lc.supports_u)
        z_v == concat1(lc.supports_v)
    IN  [u |-> Act(l.act, z_u), v |-> Act(l.act, z_v),
         den |-> IF l.cls = "StackGCNGate" THEN 4 ELSE 1]

\* the end of OrdinalMixtureGCN._call: sum, bias, activate
Mixture_finish(l, vs, lc) ==
    LET z_u == add_n(IF l.self_connections THEN << lc.self_u >> \o lc.supports_u
                     ELSE lc.supports_u)
        z_v == add_n(IF l.self_connections THEN << lc.self_v >> \o lc.supports_v
                     ELSE lc.supports_v)
        b_u == IF l.bias THEN bias_add(z_u, Deref(vs, l.user_bias[1])) ELSE z_u
        b_v == IF l.bias THEN bias_add(z_v, Deref(vs, l.item_bias[1])) ELSE z_v
    IN  [u |-> Act(l.act, b_u), v |-> Act(l.act, b_v), den |-> 1]

\* the aggregation after a loop of the gated-residual layers: tf.add_n / tf.concat
Aggregate(l, outputs) == IF l.cls = "OrdinalRGGCN" THEN add_n(outputs) ELSE concat1(outputs)

\* the end of _call with the features themselves as the skip term
Residual_finish_identity_skip(l, vs, lc, stage) ==
    LET output0 == Aggregate(l, lc.outputs)
        output1 == add(output0, Scale(DenOut(l, stage), lc.original_x))
        output  == relu(output1)
    IN  [u |-> RowsTo(output, lc.num_users), v |-> RowsFrom(output, lc.num_users),
         den |-> DenOut(l, stage)]

\* the end of the gated-residual _call: skip connection, relu, split into u and v
Residual_finish(l, vs, lc, stage) ==
    LET output0 == Aggregate(l, lc.outputs)
        output1 == add(output0, Scale(DenOut(l, stage), matmul(lc.original_x, Deref(vs, l.R))))
        output  == relu(output1)
    IN  [u |-> RowsTo(output, lc.num_users), v |-> RowsFrom(output, lc.num_users),
         den |-> DenOut(l, stage)]


\* one iteration of whichever loop the layer runs
Loop_step(l, vs, lc, stage, i) ==
    IF l.cls \in GatedResidual THEN Gated_step(l, vs, lc, stage, i) ELSE Conv_step(l, vs, lc, i)

\* the locals at the top of a loop: empty lists, accumulators at 0.
LoopStart(l, lc, stage) ==
    LET rows == IF stage = 1 THEN l.args.input_dim ELSE l.args.output_dim
        z    == Zeros(rows, l.args.output_dim)
    IN  IF l.cls \in GatedResidual
        THEN [lc EXCEPT !.k = 0, !.outputs = EmptySlots(NumRel(l)),
                        !.Ui = z, !.Uj = z, !.Vi = z, !.Vj = z]
        ELSE [lc EXCEPT !.k = 0, !.supports_u = EmptySlots(NumRel(l)),
                        !.supports_v = EmptySlots(NumRel(l)), !.wu = z, !.wv = z]

\* the locals after the first n iterations of a loop over the relations ord
RECURSIVE Loop(_, _, _, _, _, _)
Loop(l, vs, lc, stage, ord, n) ==
    IF n = 0 THEN lc
    ELSE Loop_step(l, vs, Loop(l, vs, lc, stage, ord, n - 1), stage, ord[n])

\* what _call returns after its last loop
Finish(l, vs, lc, stage) ==
    IF l.cls \in GatedResidual THEN Residual_finish(l, vs, lc, stage)
    ELSE IF l.cls = "OrdinalMixtureGCN" THEN Mixture_finish(l, vs, lc)
    ELSE Stack_finish(l, lc)

(***************************************************************************)
(* The constructor arguments the model draws.                              *)
(***************************************************************************)
NodeCounts == 1..MaxNodes

\* self.dropout in quarters: 0. and 0.5
DropoutQs == {0, 2}

\* keyword arguments handed to Layer.__init__
Kws == {"name", "invalid"}

DefaultArgs ==
    [cls |-> "None", kw |-> "name", input_dim |-> 1, output_dim |-> 1, num_support |-> 1,
     nu |-> 1, nv |-> 1, ne |-> 1, seed |-> 0, nstart |-> 1, nend |-> 1,
     sparse_inputs |-> FALSE, nonzero |-> "None", dropoutQ |-> 0, act |-> "relu",
     share |-> FALSE, bias |-> FALSE, self_connections |-> FALSE,
     num_classes |-> 1, num_weights |-> 1, u_indices |-> << >>, v_indices |-> << >>,
     user_item_bias |-> FALSE, diagonal |-> TRUE, extra |-> 0, extra_t |-> 0]

\* what every constructor takes
CommonArgs(cls) ==
    {[DefaultArgs EXCEPT !.cls = cls, !.kw = kw, !.input_dim = i, !.output_dim = o,
                         !.nu = nu, !.nv = nv, !.seed = sd, !.dropoutQ = d] :
        kw \in Kws, i \in InputDims, o \in 1..MaxOutputDim,
        nu \in NodeCounts, nv \in NodeCounts, sd \in Seeds, d \in DropoutQs}

DenseArgs ==
    {[a EXCEPT !.share = sh, !.bias = b] :
        a \in CommonArgs("Dense"), sh \in BOOLEAN, b \in BOOLEAN}

\* dense inputs, and sparse inputs (without nonzero counts) at dropout 0
GatedArgs(cls) ==
    {[a EXCEPT !.num_support = n, !.nstart = n, !.nend = n, !.ne = ne,
               !.sparse_inputs = (sp /\ a.dropoutQ = 0 /\ a.seed = 0), !.share = TRUE] :
        a \in CommonArgs(cls), n \in 1..MaxSupport, ne \in EdgeCounts, sp \in BOOLEAN}

\* E_start_list / E_end_list whose lengths differ from num_support = n: E_start
\* one longer, E_end one longer, E_end one shorter
MismatchedLengths(n) == {<< n + 1, n >>, << n, n + 1 >>, << n, n - 1 >>}

MismatchedArgs(cls) ==
    UNION {{[DefaultArgs EXCEPT !.cls = cls, !.input_dim = i, !.output_dim = o,
                                !.nu = nu, !.nv = nv, !.ne = ne, !.num_support = n,
                                !.nstart = ls[1], !.nend = ls[2], !.share = TRUE] :
               i \in InputDims, o \in 1..MaxOutputDim, nu \in NodeCounts, nv \in {1},
               ne \in EdgeCounts, ls \in MismatchedLengths(n)} : n \in 1..MaxSupport}

\* sparse_inputs with the nonzero counts given or not; dense inputs without them
SparseChoices == {<< FALSE, "None" >>, << TRUE, "nnz" >>, << TRUE, "None" >>}

\* act: tf.nn.relu (the default) or the identity
Acts == {"relu", "identity"}

StackArgs(cls) ==
    {[a EXCEPT !.num_support = n, !.share = sh, !.sparse_inputs = sp[1], !.nonzero = sp[2],
               !.act = act] :
        a \in CommonArgs(cls), n \in 1..MaxSupport, sh \in BOOLEAN, sp \in SparseChoices,
        act \in Acts}

\* malformed support arguments: one column too many in support (the column
\* count is then no multiple of num_support > 1), or a support_t stacked for
\* one more user
MalformedSupports == {<< 1, 0 >>, << 0, 1 >>}

MalformedArgs(cls) ==
    {[DefaultArgs EXCEPT !.cls = cls, !.input_dim = i, !.nu = nu, !.nv = nv,
                         !.num_support = n, !.output_dim = o, !.share = sh,
                         !.extra = x[1], !.extra_t = x[2]] :
        i \in InputDims, nu \in NodeCounts, nv \in NodeCounts, n \in 1..MaxSupport,
        o \in 1..MaxOutputDim, sh \in BOOLEAN, x \in MalformedSupports}

MixtureArgs ==
    {[a EXCEPT !.bias = b, !.self_connections = sc] :
        a \in StackArgs("OrdinalMixtureGCN"), b \in BOOLEAN, sc \in BOOLEAN}

\* index lists of length n over the rows 1..rows
IndexLists(n, rows) == [1..n -> 1..rows]

\* act of the decoder: tf.nn.softmax (the default) or the identity
DecoderActs == {"softmax", "identity"}

\* the decoder's arguments for num_users = nu, num_items = nv and n requested pairs
BilinearArgsFor(nu, nv, n) ==
    {[DefaultArgs EXCEPT !.cls = "BilinearMixture", !.input_dim = i, !.nu = nu, !.nv = nv,
                         !.seed = sd, !.dropoutQ = d, !.act = act,
                         !.num_classes = nc, !.num_weights = nw,
                         !.u_indices = ui, !.v_indices = vi,
                         !.user_item_bias = b, !.diagonal = dg] :
        i \in InputDims, sd \in Seeds, d \in DropoutQs, act \in DecoderActs,
        nc \in 1..MaxClasses, nw \in 1..MaxWeights,
        ui \in IndexLists(n, nu), vi \in IndexLists(n, nv),
        b \in BOOLEAN, dg \in BOOLEAN}

\* u_indices and v_indices of one length E in 0..MaxPairs, naming rows of the
\* num_users x input_dim and num_items x input_dim embeddings
BilinearArgs ==
    UNION {BilinearArgsFor(nu, nv, n) : nu \in NodeCounts, nv \in NodeCounts, n \in 0..MaxPairs}

\* partitions of different sizes, both above one node
UnequalSizes == {<< MaxNodes, MaxNodes + 1 >>, << MaxNodes + 1, MaxNodes >>}

UnequalArgs(cls) ==
    {[DefaultArgs EXCEPT !.cls = cls, !.input_dim = i, !.output_dim = o, !.num_support = n,
                         !.nu = nn[1], !.nv = nn[2]] :
        i \in InputDims, o \in 1..MaxOutputDim, n \in 1..MaxOutputDim, nn \in UnequalSizes}

ArgsOf(cls) ==
    CASE cls = "Dense" -> DenseArgs
      [] cls = "BilinearMixture" -> BilinearArgs
      [] cls \in GatedResidual -> GatedArgs(cls) \cup MismatchedArgs(cls)
      [] cls = "OrdinalMixtureGCN" -> MixtureArgs \cup MalformedArgs(cls)
      [] cls = "StackGCNGate" ->
            StackArgs(cls) \cup MalformedArgs(cls) \cup UnequalArgs(cls)
      [] OTHER -> StackArgs(cls) \cup MalformedArgs(cls)

(***************************************************************************)
(* Actions.                                                                *)
(***************************************************************************)
Init ==
    /\ LAYER_UIDS = [c \in {lower(cls) : cls \in Classes} |-> 0]
    /\ attempts = << >>
    /\ kwargs = DefaultArgs
    /\ layer = NoLayer
    /\ variables = NoVariables
    /\ err = "none"
    /\ trained = FALSE
    /\ pc = "idle"
    /\ inputs = NoInputs
    /\ order = << >>
    /\ loc = NoLoc
    /\ ret = NoRet

Resting == pc \in {"idle", "done", "error"}

\* layer = cls(...): a constructor call
Construct(a) ==
    /\ LET made == New(a, LAYER_UIDS)
       IN  /\ LAYER_UIDS' = made.uids
           /\ attempts' = Append(attempts,
                                 [cls |-> a.cls, kw |-> a.kw, err |-> made.err,
                                  name |-> Layer_init(a.cls, a.kw, LAYER_UIDS).name,
                                  uids |-> made.uids])
           /\ kwargs' = a
           /\ layer' = made.layer
           /\ variables' = made.variables
           /\ err' = made.err
    /\ trained' = FALSE
    /\ pc' = "idle"
    /\ inputs' = NoInputs
    /\ order' = << >>
    /\ loc' = NoLoc
    /\ ret' = NoRet

\* a training step before the forward evaluations: every variable gets a new
\* value
Train ==
    /\ pc = "idle"
    /\ layer.cls # "None"
    /\ ~trained
    /\ variables' = [nm \in DOMAIN variables |-> TrainedValue(nm, variables[nm])]
    /\ trained' = TRUE
    /\ pc' = "idle"
    /\ inputs' = NoInputs
    /\ order' = << >>
    /\ loc' = NoLoc
    /\ ret' = NoRet
    /\ UNCHANGED << LAYER_UIDS, attempts, kwargs, layer, err >>

\* the batch-normalization layers one forward evaluation creates
BatchNormsPerCall(l) ==
    IF l.cls \in GatedResidual
    THEN NumRel(l) * (IF l.cls \in TwoStage THEN 2 ELSE 1)
    ELSE 0

Canonical(n) == [j \in 1..n |-> j]

Orders(n) == {f \in [1..n -> 1..n] : \A i, j \in 1..n : f[i] = f[j] => i = j}

\* layer(inputs): _call starts, with the relations to be evaluated in the order ord
Call(xseed, nseed, ord) ==
    /\ Resting
    /\ layer.cls # "None"
    /\ BatchNormCount(variables) <= (MaxCalls - 1) * BatchNormsPerCall(layer)
    /\ ord \in Orders(NumRel(layer))
    /\ inputs' = Inputs(layer.args, xseed, nseed)
    /\ order' = ord
    /\ IF layer.cls = "Dense"
       THEN /\ ret' = Dense_call(layer, variables, inputs')
            /\ loc' = NoLoc
            /\ pc' = "done"
       ELSE IF layer.cls = "BilinearMixture"
       THEN /\ ret' = BilinearMixture_call(layer, variables, inputs').ret
            /\ loc' = BilinearMixture_call(layer, variables, inputs').loc
            /\ pc' = "done"
       ELSE /\ ret' = NoRet
            /\ loc' = CallStart(layer, variables, inputs').loc
            /\ pc' = IF CallStart(layer, variables, inputs').ok THEN "conv1" ELSE "error"
    /\ UNCHANGED << LAYER_UIDS, attempts, kwargs, layer, variables, err, trained >>

\* the stage of the loop in progress, or of the last loop run
Stage == IF pc = "conv1" \/ layer.cls \notin TwoStage THEN 1 ELSE 2

\* one iteration of the loop of _call
Step ==
    /\ pc \in {"conv1", "conv2"}
    /\ loc.k < NumRel(layer)
    /\ LET i == order[loc.k + 1]
       IN  IF \/ /\ layer.cls = "StackGCNGate"
                 /\ ~StackGCNGate_ok(layer, variables, loc.x_u, loc.x_v, i)
              \/ /\ layer.cls \in {"StackGCN", "OrdinalMixtureGCN"}
                 /\ ~Products_ok(layer, loc.x_u, loc.x_v, i)
              \/ /\ layer.cls \in GatedResidual
                 /\ ~Index_ok(layer, i)
           THEN /\ loc' = loc
                /\ variables' = variables
                /\ pc' = "error"
           ELSE /\ loc' = Loop_step(layer, variables, loc, Stage, i)
                /\ variables' = IF layer.cls \in GatedResidual
                                 THEN Gated_step_vars(layer, variables, loc, Stage, i)
                                 ELSE variables
                /\ pc' = pc
    /\ UNCHANGED << LAYER_UIDS, attempts, kwargs, layer, err, trained, inputs, order, ret >>

\* the end of the first loop of a two-stage layer: aggregate, start conv2
NextStage ==
    /\ pc = "conv1"
    /\ loc.k = NumRel(layer)
    /\ layer.cls \in TwoStage
    /\ loc' = LoopStart(layer, [loc EXCEPT !.output = Aggregate(layer, loc.outputs)], 2)
    /\ pc' = "conv2"
    /\ UNCHANGED << LAYER_UIDS, attempts, kwargs, layer, variables, err, trained, inputs, order, ret >>

\* the end of _call: aggregate, activate, return
Return ==
    /\ pc \in {"conv1", "conv2"}
    /\ loc.k = NumRel(layer)
    /\ pc = "conv1" => layer.cls \notin TwoStage
    /\ ret' = Finish(layer, variables, loc, Stage)
    /\ pc' = "done"
    /\ UNCHANGED << LAYER_UIDS, attempts, kwargs, layer, variables, err, trained, inputs, order, loc >>

ConstructAny ==
    /\ err = "none"
    /\ \E cls \in Classes : \E a \in ArgsOf(cls) : Construct(a)

\* the code's loop order: range(len(self.support))
CallCanonical == \E xseed \in Seeds : Call(xseed, xseed, Canonical(NumRel(layer)))

\* any evaluation order of the relations
CallAnyOrder ==
    \E xseed \in Seeds : \E ord \in Orders(NumRel(layer)) : Call(xseed, xseed, ord)

Next == ConstructAny \/ Train \/ CallCanonical \/ Step \/ NextStage \/ Return

Spec == Init /\ [][Next]_vrs

\* the convolution layers only (the decoder has no loop over relations)
ConstructOperator ==
    /\ err = "none"
    /\ \E cls \in Classes \ {"BilinearMixture"} : \E a \in ArgsOf(cls) : Construct(a)

NextAnyOrder == ConstructOperator \/ CallAnyOrder \/ Step \/ NextStage \/ Return

SpecAnyOrder == Init /\ [][NextAnyOrder]_vrs

\* the decoder alone
\* constructor calls one after the other, with and without a name
MaxConstructions == 3

NamingKws == {"name", "invalid", "auto", "empty"}

NamingClasses == {"Dense", "StackGCN", "StackSimple"}

\* arguments that pass the shape-contract assertions (output_dim = 2 with
\* num_support = 2) and arguments that fail them (output_dim = 1)
NamingArgs ==
    {[DefaultArgs EXCEPT !.cls = cls, !.kw = kw, !.input_dim = 2, !.output_dim = o,
                         !.num_support = 2, !.nstart = 2, !.nend = 2, !.share = TRUE] :
        cls \in NamingClasses, kw \in NamingKws, o \in 1..2}

ConstructNamed ==
    /\ Resting
    /\ Len(attempts) < MaxConstructions
    /\ \E a \in NamingArgs : Construct(a)

NextNaming == ConstructNamed

SpecNaming == Init /\ [][NextNaming]_vrs

ConstructDecoder ==
    /\ err = "none"
    /\ \E a \in BilinearArgs : Construct(a)

NextDecoder == ConstructDecoder \/ Train \/ CallCanonical

SpecDecoder == Init /\ [][NextDecoder]_vrs


(***************************************************************************)
(* Properties.                                                             *)
(***************************************************************************)
InLoop == pc \in {"conv1", "conv2"}

\* the features after dropout, as a dense matrix
DenseOf(l, x) == IF l.sparse_inputs THEN sparse_to_dense(x) ELSE x

\* the variable weights_v reads
WeightsVName(l) == IF l.args.share THEN W0("weights_u") ELSE W0("weights_v")

\* C1: StackGCN forward.  With W_A[r], W_B[r] the r-th equal-width column block of
\* the A-side and B-side weight matrices, column block r of the A output is
\* act(S_r * (X_B * W_B[r])) and column block r of the B output is
\* act(S_r^T * (X_A * W_A[r])), the blocks in relation order, nothing else added.
C1_StackGCNBlocks ==
    (pc = "done" /\ layer.cls = "StackGCN") =>
        LET n    == layer.args.num_support
            X_A  == DenseOf(layer, loc.x_u)
            X_B  == DenseOf(layer, loc.x_v)
            W_A  == split(variables[W0("weights_u")], n)
            W_B  == split(variables[WeightsVName(layer)], n)
            S(r) == Adjacency(layer.args.seed, r, layer.args.nu, layer.args.nv)
        IN  \A r \in 1..n :
              /\ split(ret.u, n)[r] = Act(layer.act, matmul(S(r), matmul(X_B, W_B[r])))
              /\ split(ret.v, n)[r] = Act(layer.act, matmul(Transpose(S(r)), matmul(X_A, W_A[r])))

C1_Witness ==
    /\ pc = "done" /\ layer.cls = "StackGCN" /\ layer.args.num_support = 2
    /\ ~layer.args.share /\ layer.act = "identity" /\ layer.args.nu # layer.args.nv
    /\ ret.u # Zeros(layer.args.nu, 2) /\ ret.v # Zeros(layer.args.nv, 2)

\* the sum of the raw matrices s_0 .. s_(r-1)
RECURSIVE PrefixSum(_, _, _)
PrefixSum(vs, s, r) ==
    IF r = 1 THEN vs[<< s, 0 >>] ELSE add(PrefixSum(vs, s, r - 1), vs[<< s, r - 1 >>])

IsZero(M) == \A r \in 1..Rows(M) : \A c \in 1..Cols(M) : M[r][c] = 0

\* what the conv1 / conv2 loop of OrdinalRGGCN appends for relation r when its
\* weights are the prefix sums of the raw matrices
OrdinalRGGCN_expected(l, vs, lc, stage, r) ==
    LET tag  == IF stage = 1 THEN "1" ELSE "2"
        x    == IF stage = 1 THEN lc.original_x ELSE lc.output
        conv == GatedConv(x, DenIn(l, stage), l.E_start[r], l.E_end[r],
                          PrefixSum(vs, "Ui" \o tag, r), PrefixSum(vs, "Uj" \o tag, r),
                          PrefixSum(vs, "Vi" \o tag, r), PrefixSum(vs, "Vj" \o tag, r),
                          vs[W0("bu1")], vs[W0("bv1")])
        bn   == batch_normalization(conv, DenOut(l, stage))
    IN  IF stage = 1 THEN relu(bn) ELSE bn

\* C2: ordinal weight accumulation.  In OrdinalMixtureGCN and in both stages of
\* OrdinalRGGCN the weight that projects the features at relation r is the sum of
\* the raw weight matrices 0..r; every evaluation, and every stage, starts the
\* accumulation from zero.
C2_PrefixSums ==
    /\ (InLoop /\ layer.cls = "OrdinalMixtureGCN") =>
          /\ loc.k = 0 => IsZero(loc.wu) /\ IsZero(loc.wv)
          /\ loc.k > 0 => loc.wu = PrefixSum(variables, "weights_u", loc.k)
          /\ \A r \in 1..loc.k :
                /\ loc.supports_u[r] =
                       sparse_tensor_dense_matmul(layer.support[r],
                           dot(loc.x_v, PrefixSum(variables, WeightsVName(layer)[1], r),
                               layer.sparse_inputs))
                /\ loc.supports_v[r] =
                       sparse_tensor_dense_matmul(layer.support_transpose[r],
                           dot(loc.x_u, PrefixSum(variables, "weights_u", r),
                               layer.sparse_inputs))
    /\ (InLoop /\ layer.cls = "OrdinalRGGCN") =>
          /\ loc.k = 0 => IsZero(loc.Ui) /\ IsZero(loc.Uj) /\ IsZero(loc.Vi) /\ IsZero(loc.Vj)
          /\ \A r \in 1..loc.k :
                loc.outputs[r] = OrdinalRGGCN_expected(layer, variables, loc, Stage, r)

C2_Witness ==
    /\ pc = "conv2" /\ layer.cls = "OrdinalRGGCN" /\ loc.k = 3
    /\ loc.Ui # variables[<< "Ui2", 2 >>]
    /\ ~IsZero(loc.outputs[3])

\* C3: OrdinalMixtureGCN with self_connections: the weight of the self-loop term
\* is the last of the R allocated matrices and is none of the matrices summed
\* into the effective weights of the loop over the other relations.
C3_DedicatedSelfWeight ==
    (layer.cls = "OrdinalMixtureGCN" /\ layer.self_connections) =>
        /\ layer.weights_u_self_conn = Whole(<< "weights_u", layer.args.num_support - 1 >>)
        /\ \A j \in 1..Len(layer.weights_u) :
              layer.weights_u[j].var # layer.weights_u_self_conn.var
        /\ \A j \in 1..Len(layer.weights_v) :
              layer.weights_v[j].var # layer.weights_v_self_conn.var

\* C4: a stacked operator constructed with output_dim not divisible by
\* num_support raises an assertion error and has allocated no variable.
C4_AssertBeforeAllocation ==
    (kwargs.cls \in StackedClasses /\ kwargs.output_dim % kwargs.num_support # 0) =>
        /\ err = "AssertionError"
        /\ layer = NoLayer
        /\ variables = NoVariables

C4_Witness ==
    /\ err = "AssertionError" /\ kwargs.kw = "name" /\ kwargs.cls = "StackGCN"
    /\ kwargs.output_dim = 2 /\ kwargs.num_support = 3

\* C5: the embeddings a stacked operator returns have output_dim columns
\* (output_dim divisible by R, or it was not constructed); those a summing
\* operator returns have output_dim columns for every R.
C5_OutputWidth ==
    (pc = "done" /\ layer.cls \in StackedClasses \cup Ordinal) =>
        /\ Rows(ret.u) = layer.args.nu /\ Rows(ret.v) = layer.args.nv
        /\ \A r \in 1..Rows(ret.u) : Len(ret.u[r]) = layer.args.output_dim
        /\ \A r \in 1..Rows(ret.v) : Len(ret.v[r]) = layer.args.output_dim

C5_Witness ==
    /\ pc = "done" /\ layer.cls = "OrdinalRGGCN"
    /\ layer.args.num_support = 3 /\ layer.args.output_dim = 2

\* [x, y] -> [y, x]
Swap(pair) == << pair[2], pair[1] >>

\* C6: StackGCN with R = 2: with the two relations' adjacency matrices (forward
\* and transposed) swapped and the two column blocks of the weights swapped, the
\* outputs of both partitions are the original outputs with their two column
\* blocks exchanged.
C6_SwapEquivariance ==
    (pc = "done" /\ layer.cls = "StackGCN" /\ layer.args.num_support = 2) =>
        LET l2  == [layer EXCEPT !.support = Swap(layer.support),
                                 !.support_transpose = Swap(layer.support_transpose)]
            vs2 == [nm \in DOMAIN variables |-> concat1(Swap(split(variables[nm], 2)))]
            r2  == Finish(l2, vs2, Loop(l2, vs2, LoopStart(l2, loc, 1), 1, Canonical(2), 2), 1)
        IN  /\ split(r2.u, 2) = Swap(split(ret.u, 2))
            /\ split(r2.v, 2) = Swap(split(ret.v, 2))

C6_Witness ==
    /\ pc = "done" /\ layer.cls = "StackGCN" /\ layer.args.num_support = 2
    /\ split(ret.u, 2)[1] # split(ret.u, 2)[2]
    /\ layer.support[1] # layer.support[2]

\* the slots of the relations evaluated so far
Slots(l, lc) == IF l.cls \in GatedResidual THEN << lc.outputs >> ELSE << lc.supports_u, lc.supports_v >>

\* the locals the loop in progress leaves when run in the code's order 0..R-1
CanonicalLoop ==
    Loop(layer, variables, LoopStart(layer, loc, Stage), Stage,
         Canonical(NumRel(layer)), NumRel(layer))

\* the loop in progress raises at no relation: the layer's lists and adjacency
\* splits fit (a layer built from malformed arguments has no canonical result)
LoopRuns ==
    IF layer.cls \in GatedResidual
    THEN \A i \in 1..NumRel(layer) : Index_ok(layer, i)
    ELSE \A i \in 1..NumRel(layer) : Products_ok(layer, loc.x_u, loc.x_v, i)

\* every relation evaluated so far has in its slot the value the code's order gives
SlotsAsCanonical ==
    LoopRuns =>
        \A j \in 1..loc.k : \A s \in 1..Len(Slots(layer, loc)) :
            Slots(layer, loc)[s][order[j]] = Slots(layer, CanonicalLoop)[s][order[j]]

\* the result is the one the code's order gives
ResultAsCanonical == ret = Finish(layer, variables, CanonicalLoop, Stage)

\* the sum of the raw matrices s_i over the first n relations of ord
RECURSIVE SumOver(_, _, _, _)
SumOver(vs, refs, ord, n) ==
    IF n = 1 THEN Deref(vs, refs[ord[1]])
    ELSE add(SumOver(vs, refs, ord, n - 1), Deref(vs, refs[ord[n]]))

Sharing == {"StackGCN", "StackGCNGate", "OrdinalMixtureGCN", "Dense"}

\* C8: with share_user_item_weights the B-side weight of every relation is the
\* A-side weight itself, equal to it whatever the updates; without it the two are
\* two variables, each allocated.
C8_WeightSharing ==
    layer.cls \in Sharing =>
        \A i \in 1..Len(layer.weights_u) :
            IF layer.args.share
            THEN /\ layer.weights_v[i] = layer.weights_u[i]
                 /\ Deref(variables, layer.weights_v[i]) = Deref(variables, layer.weights_u[i])
            ELSE /\ layer.weights_v[i].var # layer.weights_u[i].var
                 /\ {layer.weights_v[i].var, layer.weights_u[i].var} \subseteq DOMAIN variables

C8_Witness ==
    /\ trained /\ pc = "done" /\ layer.cls = "StackGCNGate" /\ layer.args.share
    /\ layer.args.num_support = 2

\* C9: in the gated-residual family, when the skip matrix R is the zero matrix the
\* output is relu of the aggregated convolution output alone.
C9_ZeroSkip ==
    (pc = "done" /\ layer.cls \in GatedResidual /\ IsZero(Deref(variables, layer.R))) =>
        concat0(ret.u, ret.v) = relu(Aggregate(layer, loc.outputs))

C9_Witness ==
    /\ pc = "done" /\ layer.cls = "StackRGGCN" /\ IsZero(Deref(variables, layer.R))
    /\ layer.dropout = 2 /\ ~IsZero(loc.original_x) /\ ~IsZero(ret.u)

\* draws of the uniform generator tried against the dropout functions
MaskSeeds == 0..3

\* C10: dropout at keep_prob = 1 is the identity: dropout_sparse keeps every
\* explicit nonzero entry at its position with its value, the dense dropout
\* returns its input; a layer with dropout = 0 works on the features it was given.
C10_DropoutIdentity ==
    /\ inputs # NoInputs =>
          \A ns \in MaskSeeds : \A x \in {inputs.u, inputs.v} :
              /\ dropout_sparse(FromDense(x), 4, Nnz(FromDense(x)),
                                Uniform(ns, Nnz(FromDense(x)))) = FromDense(x)
              /\ dropout(x, 4, Uniform(ns, Rows(x) * Cols(x))) = x
    /\ (pc \in {"conv1", "conv2", "done"} /\ layer.cls # "Dense" /\ layer.dropout = 0) =>
          IF layer.cls \in GatedResidual
          THEN loc.original_x = concat0(inputs.u, inputs.v)
          ELSE /\ DenseOf(layer, loc.x_u) = inputs.u
               /\ DenseOf(layer, loc.x_v) = inputs.v
               /\ layer.sparse_inputs =>
                     loc.x_u = FromDense(inputs.u) /\ loc.x_v = FromDense(inputs.v)

C10_Witness ==
    /\ pc = "done" /\ layer.cls = "StackGCN" /\ layer.sparse_inputs /\ layer.dropout = 0
    /\ Nnz(loc.x_u) > 1 /\ Nnz(loc.x_v) > 1


(***************************************************************************)
(* The decoder (BilinearMixture).                                          *)
(***************************************************************************)
DecoderDone == pc = "done" /\ layer.cls = "BilinearMixture"

\* the decoder asked for the pair at position e alone
OnePair(l, e) ==
    [l EXCEPT !.u_indices = << l.u_indices[e] >>, !.v_indices = << l.v_indices[e] >>]

\* C11: for index lists u_indices, v_indices of one length E (E = 0 and repeated
\* indices included) the decoder returns exactly E rows, each of num_classes
\* entries, and row e is the score of the pair (u_indices[e], v_indices[e]):
\* what the decoder returns when asked for that pair alone.  (A tensor of no
\* rows is the empty sequence: its column count is not represented.)
C11_OutputShape ==
    DecoderDone =>
        /\ Rows(ret.u) = Len(layer.u_indices)
        /\ \A e \in 1..Rows(ret.u) :
              /\ Len(ret.u[e]) = layer.num_classes
              /\ << ret.u[e] >> = BilinearMixture_call(OnePair(layer, e), variables, inputs).ret.u

C11_Witness ==
    /\ DecoderDone /\ Len(layer.u_indices) = 2
    /\ layer.u_indices[1] = layer.u_indices[2] /\ layer.v_indices[1] # layer.v_indices[2]
    /\ layer.num_classes = 2 /\ layer.num_weights = 1
    /\ ret.u[1] # ret.u[2]

\* the rows a list of indices names
Requested(indices) == {indices[e] : e \in 1..Len(indices)}

\* x with every entry of the rows outside keep replaced by z
Overwritten(x, keep, z) ==
    [r \in 1..Rows(x) |-> IF r \in keep THEN x[r] ELSE [c \in 1..Cols(x) |-> z]]

\* embeddings that agree with inp on every requested row
Agreeing(l, inp) ==
    {[inp EXCEPT !.u = Overwritten(inp.u, Requested(l.u_indices), zu),
                 !.v = Overwritten(inp.v, Requested(l.v_indices), zv)] :
        zu \in {-2, 0, 1}, zv \in {-2, 0, 1}}

\* the output is the same for all embeddings that agree on the requested rows
OutputsLocal ==
    \A alt \in Agreeing(layer, inputs) :
        BilinearMixture_call(layer, variables, alt).ret = ret

\* C12 as stated: the outputs depend on the requested rows only, and no
\* operation of the decoder is applied to a row that is not requested: every
\* row of the tensors it computes from the embeddings is a requested row.
C12_Locality ==
    DecoderDone =>
        /\ OutputsLocal
        /\ \A r \in 1..Rows(loc.x_u) : r \in Requested(layer.u_indices)
        /\ \A r \in 1..Rows(loc.x_v) : r \in Requested(layer.v_indices)

\* C12, amended: the outputs depend on the requested rows only, and the rows
\* gathered are the requested ones; the dropout before the gather is applied to
\* every row of both embeddings, requested or not.
C12_OutputLocality ==
    DecoderDone =>
        /\ OutputsLocal
        /\ loc.u_inputs = [e \in 1..Len(layer.u_indices) |-> loc.x_u[layer.u_indices[e]]]
        /\ loc.v_inputs = [e \in 1..Len(layer.v_indices) |-> loc.x_v[layer.v_indices[e]]]
        /\ Rows(loc.x_u) = Rows(inputs.u) /\ Rows(loc.x_v) = Rows(inputs.v)
        /\ \A r \in 1..Rows(inputs.u) : \A c \in 1..Cols(inputs.u) :
              loc.x_u[r][c] \in {0, inputs.u[r][c] * (4 \div KeepQ(layer))}

C12_Witness ==
    /\ DecoderDone /\ layer.dropout = 2 /\ Len(layer.u_indices) = 2
    /\ Requested(layer.u_indices) = {1} /\ Rows(inputs.u) = 2
    /\ loc.x_u[2] # inputs.u[2]
    /\ \E alt \in Agreeing(layer, inputs) : alt.u[2] # inputs.u[2]

\* C13: within one forward evaluation, two positions of the request that name
\* the same pair get identical output rows, at every dropout rate, with or
\* without the user / item biases.
C13_RepeatedPairs ==
    DecoderDone =>
        \A i, j \in 1..Len(layer.u_indices) :
            (layer.u_indices[i] = layer.u_indices[j] /\ layer.v_indices[i] = layer.v_indices[j])
                => ret.u[i] = ret.u[j]

C13_Witness ==
    /\ DecoderDone /\ layer.dropout = 2 /\ layer.user_item_bias /\ trained
    /\ Len(layer.u_indices) = 2
    /\ layer.u_indices[1] = layer.u_indices[2] /\ layer.v_indices[1] = layer.v_indices[2]
    /\ loc.x_u[layer.u_indices[1]] # inputs.u[layer.u_indices[1]]
    /\ \E c \in 1..layer.num_classes : loc.output[1][c] # 0

\* a row of fractions is a probability distribution: every entry is nonnegative,
\* and the entries, taken over one positive denominator, sum to 1
IsDistribution(row) ==
    /\ \A c \in 1..Len(row) : row[c][1] >= 0 /\ row[c][2] > 0 /\ row[c][2] = row[1][2]
    /\ Len(row) > 0
    /\ SumFn([c \in 1..Len(row) |-> row[c][1]], Len(row)) = row[1][2]

\* C14: with the default softmax activation every output row of the decoder is
\* a probability distribution over the num_classes classes: its entries are
\* nonnegative and sum to 1 (in exact arithmetic; rounding is not represented).
C14_SoftmaxRows ==
    (DecoderDone /\ layer.act = "softmax") =>
        \A e \in 1..Rows(ret.u) :
            /\ Len(ret.u[e]) = layer.num_classes
            /\ IsDistribution(ret.u[e])

C14_Witness ==
    /\ DecoderDone /\ layer.act = "softmax" /\ layer.user_item_bias /\ trained
    /\ Len(layer.u_indices) = 2 /\ layer.num_classes = 2
    /\ ret.u[1][1] # ret.u[1][2]
    /\ ret.u[1] # ret.u[2]
    /\ loc.u_bias[1] # loc.v_bias[1]

\* sum over d of emb_A[a][d] * w_k[d] * emb_B[b][d], w_k the diagonal of basis k
\* (k counted from 0), the embeddings as the dropout left them
BilinearForm(a, b, k) ==
    LET D == layer.args.input_dim
    IN  SumFn([d \in 1..D |-> loc.x_u[a][d] * variables[<< "weights", k >>][1][d] * loc.x_v[b][d]], D)

\* the logit of class c for the pair (a, b)
Logit(a, b, c) ==
    LET K == layer.num_weights
    IN  SumFn([k \in 1..K |->
                 variables[<< "weights_u_scalars", 0 >>][k][c] * BilinearForm(a, b, k - 1)], K)
          + (IF layer.user_item_bias
             THEN variables[<< "user_bias", 0 >>][a][c] + variables[<< "item_bias", 0 >>][b][c]
             ELSE 0)

\* C20: in diagonal mode the pre-activation value of class c for the requested
\* pair e = (a, b) is the sum over the bases k of M[k][c] times the bilinear form
\* of basis k, plus user_bias[a][c] + item_bias[b][c] when user_item_bias is on
\* and nothing otherwise; basis k is entry k of the stacked score vector.
C20_DiagonalLogits ==
    (DecoderDone /\ layer.diagonal) =>
        /\ Rows(loc.output) = Len(layer.u_indices)
        /\ \A e \in 1..Len(layer.u_indices) :
              /\ \A c \in 1..layer.num_classes :
                    loc.output[e][c] = Logit(layer.u_indices[e], layer.v_indices[e], c)
              /\ \A k \in 1..layer.num_weights :
                    loc.basis_outputs[e][k]
                        = BilinearForm(layer.u_indices[e], layer.v_indices[e], k - 1)
        /\ ret.u = DecoderAct(layer.act, loc.output)

C20_Witness ==
    /\ DecoderDone /\ layer.diagonal /\ layer.num_weights = 2 /\ layer.num_classes = 2
    /\ layer.user_item_bias /\ trained /\ Len(layer.u_indices) = 2
    /\ variables[<< "weights", 0 >>] # variables[<< "weights", 1 >>]
    /\ loc.basis_outputs[1][1] # loc.basis_outputs[1][2]
    /\ loc.output[1] # matmul(loc.basis_outputs, variables[<< "weights_u_scalars", 0 >>])[1]

(***************************************************************************)
(* Validation of the constructors' arguments.                              *)
(***************************************************************************)
SplitClasses == {"StackGCN", "StackGCNGate", "OrdinalMixtureGCN"}

\* C15: a StackGCN, StackGCNGate or OrdinalMixtureGCN that was constructed holds
\* per-relation matrices of one width, and the forward and transpose splits
\* agree in shape: construction fails when the stacked support's column count
\* is no multiple of num_support or the two splits disagree.
C15_SplitValidated ==
    layer.cls \in SplitClasses =>
        \A i \in 1..Len(layer.support) :
            /\ layer.support[i].dense_shape[2] = layer.support[1].dense_shape[2]
            /\ layer.support_transpose[i].dense_shape
                  = << layer.support[i].dense_shape[2], layer.support[i].dense_shape[1] >>

\* C16: a gated-residual operator that was constructed holds E_start and E_end
\* lists of length num_support: construction fails when either length differs,
\* so no operator with mismatched lists is evaluated.
C16_ListLengthsValidated ==
    layer.cls \in GatedResidual =>
        /\ Len(layer.E_start) = layer.args.num_support
        /\ Len(layer.E_end) = layer.args.num_support

\* the last constructor call passed sparse_inputs=True and no nonzero counts
CountsMissing == err # "none" /\ kwargs.sparse_inputs /\ kwargs.nonzero = "None"

\* C17 as stated: every operator that accepts sparse_inputs fails at construction
\* (assertion) when sparse_inputs=True and the nonzero counts are None.
C17_CountsAsserted ==
    CountsMissing => (err = "AssertionError" /\ layer = NoLayer)

\* C17, amended: StackGCN, StackGCNGate and OrdinalMixtureGCN fail at construction
\* (assertion) when sparse_inputs=True and the nonzero counts are None, so no
\* forward evaluation of them ever runs without counts; the gated-residual
\* operators accept sparse_inputs=True without counts, are constructed whenever
\* their other assertions pass, and their forward evaluation runs without them.
C17_CountsAssertedBySplitClasses ==
    /\ (CountsMissing /\ kwargs.cls \in SplitClasses) =>
          (err = "AssertionError" /\ layer = NoLayer /\ pc = "idle")
    /\ (CountsMissing /\ kwargs.cls \in GatedResidual) =>
          /\ err = "ok" <=> /\ kwargs.kw = "name"
                            /\ kwargs.nstart = kwargs.num_support
                            /\ \/ kwargs.cls = "OrdinalRGGCN"
                               \/ kwargs.output_dim % kwargs.num_support = 0
          /\ err = "ok" => (layer.sparse_inputs /\ layer.u_features_nonzero = "None")
          /\ pc = "error" => ~Index_ok(layer, order[loc.k + 1])
    /\ (layer.cls \in SplitClasses /\ layer.sparse_inputs) =>
          (layer.u_features_nonzero # "None" /\ layer.v_features_nonzero # "None")

C17_Witness ==
    /\ CountsMissing /\ kwargs.cls = "StackGCNGate" /\ err = "AssertionError"
    /\ kwargs.kw = "name" /\ kwargs.output_dim % kwargs.num_support = 0
    /\ variables # NoVariables

(***************************************************************************)
(* Parameters and state across forward evaluations.                        *)
(***************************************************************************)
\* the variables the constructor call created
Constructed == New(kwargs, LAYER_UIDS).variables

\* C18: every parameter of a layer is created during its construction and a
\* forward evaluation creates none: at any time after construction the set of
\* parameters is the set the constructor created.
C18_ParametersFromConstruction ==
    layer.cls # "None" => DOMAIN variables = DOMAIN Constructed

\* the constructor's variables vs as they are now: as created, or as trained
Parameters(vs) ==
    Eval(
        [nm \in DOMAIN vs |-> IF trained THEN TrainedValue(nm, vs[nm]) ELSE vs[nm]])

\* a whole forward evaluation of the layer l with the variables vs on inp
Forward(l, vs, inp) ==
    IF l.cls = "Dense" THEN Dense_call(l, vs, inp)
    ELSE IF l.cls = "BilinearMixture" THEN BilinearMixture_call(l, vs, inp).ret
    ELSE LET n   == NumRel(l)
             lc1 == Loop(l, vs, CallStart(l, vs, inp).loc, 1, Canonical(n), n)
             lc2 == Loop(l, vs, LoopStart(l, [lc1 EXCEPT !.output = Aggregate(l, lc1.outputs)], 2),
                         2, Canonical(n), n)
         IN  IF l.cls \in TwoStage THEN Finish(l, vs, lc2, 2) ELSE Finish(l, vs, lc1, 1)

\* C19: a forward evaluation leaves the layer's weights, biases, adjacency
\* matrices, index lists and configuration fields as the constructor (and the
\* training step) left them, and what it returns is what an evaluation of these
\* weights on the same inputs and dropout draws returns right after
\* construction, however many evaluations came before.
C19_Stateless ==
    layer.cls # "None" =>
        LET made == New(kwargs, LAYER_UIDS)
            ps   == Parameters(made.variables)
        IN  /\ layer = made.layer
            /\ \A nm \in DOMAIN ps : nm \in DOMAIN variables /\ variables[nm] = ps[nm]
            /\ pc = "done" => ret = Forward(layer, ps, inputs)

C19_Witness ==
    /\ pc = "done" /\ layer.cls = "StackRGGCNDouble" /\ trained /\ layer.dropout = 2
    /\ BatchNormCount(variables) > BatchNormsPerCall(layer)
    /\ ~IsZero(ret.u) /\ ~IsZero(ret.v)

(***************************************************************************)
(* The biases and gate parameters of the gated-residual operators.         *)
(***************************************************************************)
\* every entry of M moved by one
Shifted(M) == [r \in 1..Rows(M) |-> [c \in 1..Cols(M) |-> M[r][c] + 1]]

\* the variables with those of the base names in names changed
Changed(vs, names) ==
    [nm \in DOMAIN vs |-> IF nm[1] \in names THEN Shifted(vs[nm]) ELSE vs[nm]]

\* relation j's block of the variable called s: the variable s_(j-1) of
\* OrdinalRGGCN, column block j of the variable s of the split layers
Block(s, j) ==
    IF layer.cls = "OrdinalRGGCN" THEN variables[<< s, j - 1 >>]
    ELSE split(variables[<< s, 0 >>], NumRel(layer))[j]

\* the weight conv2 uses at relation j: the running sum in OrdinalRGGCN
RECURSIVE Weight2(_, _)
Weight2(s, j) ==
    IF layer.cls = "OrdinalRGGCN" /\ j > 1 THEN add(Weight2(s, j - 1), Block(s, j))
    ELSE Block(s, j)

\* the bias vector called s that relation j reads
Bias(s, j) ==
    IF layer.cls = "OrdinalRGGCN" THEN variables[<< s, 0 >>]
    ELSE split(variables[<< s, 0 >>], NumRel(layer))[j]

\* what conv2 appends for relation j when it adds bv1 to the gate
\* pre-activation (where the operator forms a gate: StackSimple forms none) and
\* bu1 to the message
SecondStageWithFirstBias(j) ==
    batch_normalization(
        IF layer.cls = "StackSimple"
        THEN SimpleConv(loc.output, DenIn(layer, 2), layer.E_start[j], layer.E_end[j],
                        Weight2("Ui2", j), Weight2("Uj2", j), Bias("bu1", j))
        ELSE GatedConv(loc.output, DenIn(layer, 2), layer.E_start[j], layer.E_end[j],
                       Weight2("Ui2", j), Weight2("Uj2", j), Weight2("Vi2", j),
                       Weight2("Vj2", j), Bias("bu1", j), Bias("bv1", j)),
        DenOut(layer, 2))

SecondStageRun == layer.cls \in TwoStage /\ (pc = "conv2" \/ pc = "done")

KeepQs == {1, 2, 4}

\* the positions of sp whose draw retains them: keep_prob + u_k >= 1
Retained(sp, keepQ, uniform) ==
    SelectSeq([k \in 1..Nnz(sp) |-> k], LAMBDA k : keepQ + uniform[k] >= 4)

\* out is sp after the retention rule: the retained entries in their order,
\* each at its index with its value times 1 / keep_prob, and nothing else
RetentionRule(sp, out, keepQ, uniform) ==
    LET kept == Retained(sp, keepQ, uniform)
    IN  /\ out.dense_shape = sp.dense_shape
        /\ Nnz(out) = Len(kept)
        /\ \A j \in 1..Len(kept) :
               /\ out.indices[j] = sp.indices[kept[j]]
               /\ out.values[j] * keepQ = sp.values[kept[j]] * 4
        /\ \A k \in 1..Nnz(sp) :
               (\E j \in 1..Nnz(out) : out.indices[j] = sp.indices[k])
                   <=> keepQ + uniform[k] >= 4
        /\ \A j \in 1..Nnz(out) : \E k \in 1..Nnz(sp) : out.indices[j] = sp.indices[k]

\* C22: for 0 < keep_prob <= 1 and one uniform draw u_k per explicit nonzero
\* entry k, dropout_sparse keeps entry k iff keep_prob + u_k >= 1; a kept entry
\* keeps its index and has its value multiplied by 1 / keep_prob, every other
\* entry is removed, and no entry appears that was no explicit nonzero of the
\* input.  The sparse features a layer works on obey the rule.
C22_RetentionRule ==
    /\ inputs # NoInputs =>
          \A ns \in MaskSeeds : \A keepQ \in KeepQs : \A x \in {inputs.u, inputs.v} :
              LET sp == FromDense(x)
                  un == Uniform(ns, Nnz(sp))
              IN  RetentionRule(sp, dropout_sparse(sp, keepQ, Nnz(sp), un), keepQ, un)
    /\ (pc \in {"conv1", "done"} /\ layer.cls \in SplitClasses /\ layer.sparse_inputs) =>
          /\ RetentionRule(FromDense(inputs.u), loc.x_u, KeepQ(layer),
                           Uniform(inputs.nseed, Nnz(FromDense(inputs.u))))
          /\ RetentionRule(FromDense(inputs.v), loc.x_v, KeepQ(layer),
                           Uniform(inputs.nseed + 1, Nnz(FromDense(inputs.v))))

C22_Witness ==
    /\ pc = "done" /\ layer.cls = "StackGCNGate" /\ layer.sparse_inputs /\ layer.dropout = 2
    /\ Nnz(loc.x_u) > 0 /\ Nnz(loc.x_u) < Nnz(FromDense(inputs.u))
    /\ \E j \in 1..Nnz(loc.x_u) : \E k \in 1..Nnz(FromDense(inputs.u)) :
          /\ loc.x_u.indices[j] = FromDense(inputs.u).indices[k]
          /\ loc.x_u.values[j] = 2 * FromDense(inputs.u).values[k]

(***************************************************************************)
(* The partition sizes of StackGCNGate.                                    *)
(***************************************************************************)
\* a StackGCNGate was asked for, with the stacked matrices of a graph of
\* kwargs.nu A-nodes and kwargs.nv B-nodes as support and support_t
GateOnGraph == kwargs.cls = "StackGCNGate" /\ kwargs.extra = 0 /\ kwargs.extra_t = 0

\* C23: the forward evaluation of StackGCNGate is defined for every pair of
\* partition sizes |A| >= 1, |B| >= 1, |A| # |B| included: the gate
\* sigmoid(X_A * W_A[r] + X_B * W_B[r]) is formed and multiplied into both
\* projected messages, no step of the evaluation fails, and the operator
\* returns an A embedding of |A| rows and a B embedding of |B| rows, each of
\* output_dim columns.
C23_DefinedForAllSizes ==
    GateOnGraph =>
        /\ pc # "error"
        /\ pc = "done" =>
              /\ Rows(ret.u) = kwargs.nu /\ Cols(ret.u) = kwargs.output_dim
              /\ Rows(ret.v) = kwargs.nv /\ Cols(ret.v) = kwargs.output_dim

\* what the evaluation does: it is defined exactly when |A| = |B|
C23_DefinedForEqualSizes ==
    GateOnGraph =>
        /\ pc = "error" => kwargs.nu # kwargs.nv
        /\ pc = "done" =>
              /\ kwargs.nu = kwargs.nv
              /\ Rows(ret.u) = kwargs.nu /\ Cols(ret.u) = kwargs.output_dim
              /\ Rows(ret.v) = kwargs.nv /\ Cols(ret.v) = kwargs.output_dim

\* the sum A + B itself cannot be formed
C23_GateNotFormed ==
    /\ GateOnGraph /\ pc = "error" /\ kwargs.nu > 1 /\ kwargs.nv > 1
    /\ ~BroadcastOk(dot(loc.x_u, Deref(variables, layer.weights_A[1]), layer.sparse_inputs),
                    dot(loc.x_v, Deref(variables, layer.weights_B[1]), layer.sparse_inputs))

\* A + B is formed by broadcasting a single row, and the propagation fails
C23_GateBroadcast ==
    /\ GateOnGraph /\ pc = "error" /\ kwargs.nu = 1 /\ kwargs.nv = MaxNodes
    /\ BroadcastOk(dot(loc.x_u, Deref(variables, layer.weights_A[1]), layer.sparse_inputs),
                   dot(loc.x_v, Deref(variables, layer.weights_B[1]), layer.sparse_inputs))

(***************************************************************************)
(* StackSimple: no edge gate.                                              *)
(***************************************************************************)
\* the gate parameters StackSimple allocates
GateParameters == {"Vi1", "Vj1", "Vi2", "Vj2", "bv1", "bv2"}

\* x * U_i + E_end^T * (E_start * (x * U_j)) plus bias, for relation j of the
\* stage whose input is x and whose weights are called ui, uj
SimpleMessage(x, j, ui, uj) ==
    bias_add(add(matmul(x, Block(ui, j)),
                 sparse_tensor_dense_matmul(sparse_transpose(layer.E_end[j]),
                     sparse_tensor_dense_matmul(layer.E_start[j], matmul(x, Block(uj, j))))),
             Bias("bu1", j))

\* C24: StackSimple has no edge-gate branch.  What it returns depends only on
\* the input features, the adjacency lists, Ui1, Uj1, Ui2, Uj2, bu1 and R:
\* changing any of the gate parameters it allocates (Vi1, Vj1, Vi2, Vj2, bv1,
\* bv2) leaves the output unchanged, and the per-relation message of each stage
\* is x * U_i + E_end^T * (E_start * (x * U_j)) plus bias (then normalized, and
\* rectified in the first stage).
C24_NoGateBranch ==
    layer.cls = "StackSimple" =>
        /\ {<< g, 0 >> : g \in GateParameters} \subseteq DOMAIN variables
        /\ pc = "conv1" =>
              \A j \in 1..loc.k :
                  loc.outputs[j] =
                      relu(batch_normalization(SimpleMessage(loc.original_x, j, "Ui1", "Uj1"), 1))
        /\ pc \in {"conv2", "done"} =>
              \A j \in 1..loc.k :
                  loc.outputs[j] =
                      batch_normalization(SimpleMessage(loc.output, j, "Ui2", "Uj2"), 1)
        /\ (pc = "done" /\ trained) =>
              \A names \in {{g} : g \in GateParameters} \cup {GateParameters} :
                  Forward(layer, Changed(variables, names), inputs) = ret

C24_Witness ==
    /\ pc = "done" /\ layer.cls = "StackSimple" /\ trained /\ NumRel(layer) = 2
    /\ \A g \in GateParameters : ~IsZero(variables[<< g, 0 >>])
    /\ ~IsZero(ret.u) /\ ~IsZero(ret.v)
    /\ Forward(layer, Changed(variables, {"Ui1"}), inputs) # ret
    /\ Forward(layer, Changed(variables, {"bu1"}), inputs) # ret

(***************************************************************************)
(* The layer naming counter.                                               *)
(***************************************************************************)
\* the constructor calls so far that reached get_layer_uid: no keyword but
\* name / logging, and no name or an empty one
Unnamed == {i \in 1..Len(attempts) : attempts[i].kw \in {"auto", "empty"}}

\* the counters before the i-th constructor call
UidsBefore(i) ==
    IF i = 1 THEN [c \in {lower(cls) : cls \in Classes} |-> 0] ELSE attempts[i - 1].uids

\* C25: after any sequence of constructor calls the counter of a class name is
\* the number of calls for that class made without a (non-empty) name, those
\* that then fail a shape-contract assertion of the subclass constructor
\* included; the names generated are pairwise distinct; a call given a name, or
\* rejected for an unknown keyword argument, leaves every counter as it was.
C25_NamingCounter ==
    /\ \A cls \in Classes :
          LAYER_UIDS[lower(cls)] = Cardinality({i \in Unnamed : attempts[i].cls = cls})
    /\ \A i \in Unnamed : attempts[i].name = << lower(attempts[i].cls), attempts[i].uids[lower(attempts[i].cls)] >>
    /\ \A i \in Unnamed : \A j \in Unnamed : i # j => attempts[i].name # attempts[j].name
    /\ \A i \in 1..Len(attempts) :
          attempts[i].kw \in {"name", "invalid"} => attempts[i].uids = UidsBefore(i)
    /\ (layer.cls # "None" /\ kwargs.kw \in {"auto", "empty"}) =>
          layer.name = attempts[Len(attempts)].name

C25_Witness ==
    /\ Len(attempts) = 3
    /\ attempts[1].cls = "StackGCN" /\ attempts[1].kw = "auto"
    /\ attempts[1].err = "AssertionError" /\ attempts[1].name = << "stackgcn", 1 >>
    /\ attempts[2].cls = "StackGCN" /\ attempts[2].kw = "invalid"
    /\ attempts[3].cls = "StackGCN" /\ attempts[3].kw = "empty" /\ attempts[3].err = "ok"
    /\ layer.name = << "stackgcn", 2 >>
    /\ LAYER_UIDS["stackgcn"] = 2 /\ LAYER_UIDS["dense"] = 0

=============================================================================
